---- MODULE Spec2Model ----
(***************************************************************************)
(* Verification model of the Helium substructure-query core: the inverted  *)
(* fingerprint index (fileio/fingerprints.h), the SMARTS predicate         *)
(* evaluator and fragment mapping combiner (algorithms/smarts.h), the     *)
(* binary container (fileio/file.h), the row-major fingerprint file, the   *)
(* vector order (util/vector.h) and Dijkstra (algorithms/dijkstra.h).      *)
(*                                                                         *)
(* Each subsystem has its own specification (SpecIdx, SpecComb, SpecEval,  *)
(* SpecFile, SpecOpen, SpecRow, SpecTrees, SpecRace, SpecVec, SpecFp,      *)
(* SpecDij); the variables of the other subsystems stay at their idle      *)
(* values.                                                                 *)
(***************************************************************************)
EXTENDS Integers, Sequences, FiniteSets, TLC

VARIABLES
  \* ---- inverted fingerprint index (fileio/fingerprints.h) ----
  ipc,        \* life cycle of the index: "off", "writing", "crashed", "closed", "opened",
              \* "searched" (on-demand reader), "compared" (cached reader as well)
  ofile,      \* the InvertedFingerprintOutputFile object: m_header, m_current, m_data
  disk,       \* the file on disk: header struct and payload words
  ifile,      \* the InvertedFingerprintFile object: m_header, m_data
  heap,       \* what uninitialised heap words hold in this run
  fps,        \* the fingerprints appended so far (history)
  oob,        \* buffer bit indices written outside the allocated m_data
  query,      \* the fingerprint of the last search
  result,     \* the caller's result buffer
  cfile,      \* the InvertedFingerprintFileCached object: m_header, m_data
  cresult,    \* the caller's result buffer for the cached reader
  qwidth,     \* the bit width of the query buffer of the last search
  reported,   \* what the last search call reported back to its caller
  \* ---- fragment mapping combiner (algorithms/smarts.h, Smarts::search) ----
  cpc,        \* position in Smarts::search: "off", "fragments", "enumerate", "done"
  m_atomMaps, \* per fragment: local atom index -> slot of the global mapping
  target,     \* per fragment: the mappings isomorphism_search finds in the target
  collector,  \* type of the caller's result collector
  frag,       \* loop variable i of the fragment loop
  mappings,   \* the MappingLists filled so far
  stack,      \* call stack of enumerate_mappings: fragment, i, current
  match,      \* the flag enumerate_mappings sets
  retval,     \* what Smarts::search returned: "none", TRUE or FALSE
  emitted,    \* the add_mapping calls so far: the map and its candidate indices
  searched,   \* the fragments handed to isomorphism_search so far, in order
  tries,      \* number of candidate mappings examined by enumerate_mappings
  pruned,     \* number of candidates skipped because they overlap
  \* ---- predicate evaluator (algorithms/smarts.h, Smarts*Matcher::match) ----
  epc,        \* "off", "ready" (a candidate is chosen), "evaluated"
  kind,       \* "atom" for SmartsAtomMatcher, "bond" for SmartsBondMatcher
  mol,        \* the target molecule with its ring set
  matcher,    \* the matcher object: m_atoms or m_bonds, m_recursiveMols, m_recursiveTrees
  cand,       \* the candidate atom or bond handed to operator()
  value,      \* what match returned
  trace,      \* the nodes match visited, in order, each as its path from the root
  seen,       \* the evaluations made so far: query index, candidate, result
  probes,     \* number of further candidates probed
  \* ---- binary container (fileio/file.h) ----
  fpc,        \* "closed", "writing", "headed", "onDisk", "reading", "sought", "readAt"
  ofs,        \* BinaryOutputFile: payload and header so far, m_ofs position, m_offset
  fdisk,      \* the bytes of the file once the writer has closed it
  ifs,        \* BinaryInputFile: m_ifs position and state, m_json, m_offset, m_error
  hdr,        \* the header string given to writeHeader
  pay,        \* the payload bytes given to write, in order
  got,        \* the bytes the reader has read, in order
  sought,     \* the position given to the last seek, -1 before the first
  peek,       \* what the read after the last seek returned
  \* ---- opening a file with one of the reader classes ----
  xpc,        \* "off", "file" (a file is given), "done" (a constructor ran)
  xname,      \* the file name given to the constructor
  xfile,      \* what is on disk under that name
  xreader,    \* the class that was constructed on it
  xthrown,    \* the exception the constructor threw, NoThrow if none
  xobj,       \* the object left behind: constructed, operator bool, error(), payload reads
  \* ---- row-major fingerprint file (fileio/fingerprints.h) ----
  rpc,        \* "off", "writing", "written", "loaded", "read"
  rwriter,    \* RowMajorFingerprintOutputFile: m_numBytes and the words written through m_file
  rdisk,      \* the file once the writer is done: JSON header and payload words
  rstore,     \* InMemoryRowMajorFingerprintStorage: m_numBits, m_numFingerprints, m_fingerprints
  rfps,       \* the fingerprint buffers given to writeFingerprint, in order
  rindex,     \* the index given to the last fingerprint(index) call
  rgot,       \* the words fingerprint(index) points at
  \* ---- expression tree ownership (algorithms/smarts.h, SmartsTrees) ----
  tpc,        \* "off", "run"
  theap,      \* the expression nodes allocated so far, by address: type, union slot, right
  tfreed,     \* per node: how many times it was deleted
  tobjs,      \* per SmartsTrees object: "none", "live" or "dead", m_atoms, m_bonds
  \* ---- two threads searching through one reader object (fileio/fingerprints.h) ----
  kreader,    \* the class of the shared reader: "none", "InvertedFingerprintFile", "InvertedFingerprintFileCached"
  kobj,       \* the shared reader object: m_header, m_ifs (position in payload words, state), m_data
  kth,        \* per thread: position in search(), its query, i, first, its result buffer
  \* ---- vector ordering (util/vector.h) ----
  vpc,        \* "off", "given" (two vectors are chosen), "compared"
  va,         \* the vector a
  vb,         \* the vector b
  vlt,        \* what a < b and b < a returned, and whether they read behind the end of a vector
  \* ---- sequential fingerprint file (fileio/fingerprints.h, FingerprintFile) ----
  gpc,        \* "off", "open"
  gfile,      \* the file: the count in its first four bytes and the number of words after it
  gobj,       \* the FingerprintFile object: state of m_ifs, its position in words, m_numFingerprints, m_current
  ghist,      \* the read_fingerprint calls so far: return value, current() after it, words read
  \* ---- shortest paths (algorithms/dijkstra.h) ----
  dpc,        \* "off", "run" (in the while loop of dijkstra), "done", "asked"
  dmol,       \* the molecule: number of atoms and the bonds as pairs of atom indices
  dobj,       \* the Dijkstra object and the locals of dijkstra(): m_source, atomMask, Q, m_dist, m_prev
  dtarget,    \* the target atom of the last distance / path call
  dans        \* what distance(target) and path(target) returned

idxVars == <<ipc, ofile, disk, ifile, heap, fps, oob, query, result, cfile, cresult,
             qwidth, reported>>

combVars == <<cpc, m_atomMaps, target, collector, frag, mappings, stack, match,
              retval, emitted, searched, tries, pruned>>

evalVars == <<epc, kind, mol, matcher, cand, value, trace, seen, probes>>

fileVars == <<fpc, ofs, fdisk, ifs, hdr, pay, got, sought, peek>>

openVars == <<xpc, xname, xfile, xreader, xthrown, xobj>>

rowVars == <<rpc, rwriter, rdisk, rstore, rfps, rindex, rgot>>

treesVars == <<tpc, theap, tfreed, tobjs>>

raceVars == <<kreader, kobj, kth>>

vecVars == <<vpc, va, vb, vlt>>

fpVars == <<gpc, gfile, gobj, ghist>>

dijVars == <<dpc, dmol, dobj, dtarget, dans>>

vars == <<idxVars, combVars, evalVars, fileVars, openVars, rowVars, treesVars, raceVars, vecVars, fpVars, dijVars>>

\* what the actions of one subsystem leave alone
idxOthers == <<combVars, evalVars, fileVars, openVars, rowVars, treesVars, raceVars, vecVars, fpVars, dijVars>>
combOthers == <<idxVars, evalVars, fileVars, openVars, rowVars, treesVars, raceVars, vecVars, fpVars, dijVars>>
evalOthers == <<idxVars, combVars, fileVars, openVars, rowVars, treesVars, raceVars, vecVars, fpVars, dijVars>>
fileOthers == <<idxVars, combVars, evalVars, openVars, rowVars, treesVars, raceVars, vecVars, fpVars, dijVars>>
openOthers == <<idxVars, combVars, evalVars, fileVars, rowVars, treesVars, raceVars, vecVars, fpVars, dijVars>>
rowOthers == <<idxVars, combVars, evalVars, fileVars, openVars, treesVars, raceVars, vecVars, fpVars, dijVars>>
treesOthers == <<idxVars, combVars, evalVars, fileVars, openVars, rowVars, raceVars, vecVars, fpVars, dijVars>>
raceOthers == <<idxVars, combVars, evalVars, fileVars, openVars, rowVars, treesVars, vecVars, fpVars, dijVars>>
vecOthers == <<idxVars, combVars, evalVars, fileVars, openVars, rowVars, treesVars, raceVars, fpVars, dijVars>>
fpOthers == <<idxVars, combVars, evalVars, fileVars, openVars, rowVars, treesVars, raceVars, vecVars, dijVars>>
dijOthers == <<idxVars, combVars, evalVars, fileVars, openVars, rowVars, treesVars, raceVars, vecVars, fpVars>>

----------------------------------------------------------------------------
(***************************************************************************)
(* Bit vectors.  A Word is the set of its set bit positions 0..63; a       *)
(* buffer of words is a function from 0..len-1 to words.                   *)
(***************************************************************************)

\* sizeof(Word) * 8
BitsPerWord == 64

\* width of the fingerprints of the documented example
FpBits == 8

\* number of leading appends whose fingerprint is a free input
FreeAppends == 2

\* largest number of bits set in a query fingerprint
MaxQueryBits == 3

Word == 0 .. (BitsPerWord - 1)

EmptyBuf == [w \in {} |-> {}]

\* new Word[n]: n default-initialised (indeterminate) words
NewWords(n, fill) == [w \in 0 .. (n - 1) |-> fill]

\* bitvec_get(index, data): the caller's fingerprint holds bits 0..FpBits-1
bitvec_get(index, fingerprint) == index \in fingerprint

\* true when bitvec_set(index, data) stays inside the buffer
InBuf(index, data) == (index \div BitsPerWord) \in DOMAIN data

\* bitvec_set(index, data) inside the buffer
bitvec_set(index, data) ==
  [data EXCEPT ![index \div BitsPerWord] = @ \cup {index % BitsPerWord}]

----------------------------------------------------------------------------
(***************************************************************************)
(* InvertedFingerprintOutputFile                                           *)
(***************************************************************************)

get_magic_number == 1214578689   \* 0x48650001

\* the constructor's header set-up
MakeHeader(bitsPerFingerprint, numFingerprints) ==
  [ magic_number          |-> get_magic_number,
    bits_per_word         |-> BitsPerWord,
    bits_per_fingerprint  |-> bitsPerFingerprint,
    words_per_fingerprint |-> bitsPerFingerprint \div BitsPerWord,
    words_per_fpbit       |->
       (numFingerprints + (numFingerprints % BitsPerWord)) \div BitsPerWord,
    num_fingerprints      |-> numFingerprints ]

\* the bit index the writer sets for fingerprint bit i
\* (unsigned int arithmetic; far from wrapping at the sizes tried)
WriteIndex(h, i, current) == i * h.words_per_fpbit * 64 + current

\* the loop of write(): bits i..bits_per_fingerprint-1 of the fingerprint
RECURSIVE WriteLoop(_, _, _, _, _)
WriteLoop(h, i, fingerprint, current, acc) ==
  IF i >= h.bits_per_fingerprint THEN acc
  ELSE IF ~bitvec_get(i, fingerprint)
       THEN WriteLoop(h, i + 1, fingerprint, current, acc)
       ELSE LET idx == WriteIndex(h, i, current) IN
            IF InBuf(idx, acc.data)
            THEN WriteLoop(h, i + 1, fingerprint, current,
                           [acc EXCEPT !.data = bitvec_set(idx, acc.data)])
            ELSE WriteLoop(h, i + 1, fingerprint, current,
                           [acc EXCEPT !.oob = @ \cup {idx}])

----------------------------------------------------------------------------
(***************************************************************************)
(* InvertedFingerprintFile                                                 *)
(***************************************************************************)

\* m_ifs.seekg(header + offset words); m_ifs.read(m_data, words_per_fpbit words)
ReadBitmap(h, payload, offset) ==
  [j \in 0 .. (h.words_per_fpbit - 1) |-> payload[offset + j]]

\* a search that starts from the bitmap of all molecules
SearchLoopFilled(h, payload, i, fingerprint, acc) ==
  [acc EXCEPT !.result = [j \in DOMAIN acc.result |-> Word]]

\* the loop of search(): bits i..bits_per_fingerprint-1 of the query
RECURSIVE SearchLoop(_, _, _, _, _)
SearchLoop(h, payload, i, fingerprint, acc) ==
  IF i >= h.bits_per_fingerprint THEN acc
  ELSE IF ~bitvec_get(i, fingerprint)
       THEN SearchLoop(h, payload, i + 1, fingerprint, acc)
       ELSE LET offset == i * h.words_per_fpbit
                data   == ReadBitmap(h, payload, offset)
            IN  IF acc.first
                THEN SearchLoop(h, payload, i + 1, fingerprint,
                       [first  |-> FALSE,
                        m_data |-> data,
                        result |-> [j \in DOMAIN acc.result |-> data[j]]])
                ELSE SearchLoop(h, payload, i + 1, fingerprint,
                       [first  |-> FALSE,
                        m_data |-> data,
                        result |-> [j \in DOMAIN acc.result |->
                                       acc.result[j] \cap data[j]]])

\* a read that forgets the offset and takes the first bitmap
CachedBitmapFirst(h, m_data, offset) ==
  [j \in 0 .. (h.words_per_fpbit - 1) |-> m_data[j]]

\* m_data[offset + j] for the words j of one bitmap
CachedBitmap(h, m_data, offset) ==
  [j \in 0 .. (h.words_per_fpbit - 1) |-> m_data[offset + j]]

\* the loop of InvertedFingerprintFileCached::search()
RECURSIVE SearchLoopCached(_, _, _, _, _)
SearchLoopCached(h, m_data, i, fingerprint, acc) ==
  IF i >= h.bits_per_fingerprint THEN acc
  ELSE IF ~bitvec_get(i, fingerprint)
       THEN SearchLoopCached(h, m_data, i + 1, fingerprint, acc)
       ELSE LET offset == i * h.words_per_fpbit
                data   == CachedBitmap(h, m_data, offset)
            IN  IF acc.first
                THEN SearchLoopCached(h, m_data, i + 1, fingerprint,
                       [first  |-> FALSE,
                        result |-> [j \in DOMAIN acc.result |-> data[j]]])
                ELSE SearchLoopCached(h, m_data, i + 1, fingerprint,
                       [first  |-> FALSE,
                        result |-> [j \in DOMAIN acc.result |->
                                       acc.result[j] \cap data[j]]])

----------------------------------------------------------------------------
(***************************************************************************)
(* Inputs of the index model                                               *)
(***************************************************************************)

\* the four fingerprints of the documented example, 00101100 10001011
\* 00000110 10101100 (leftmost character is bit 0), and its query 00001011
DocFps == << {2, 4, 5}, {0, 4, 6, 7}, {5, 6}, {0, 2, 4, 5} >>
DocQuery == {4, 6, 7}

\* the declared fingerprint counts tried
NumFpChoices == {4, 33, 64, 65}

\* the fingerprint appended at position k once the free inputs are used up
GenFp(k) == {b \in 0 .. (FpBits - 1) : (k \div (b + 1)) % 2 = 1}

\* the fingerprints the caller may append at position k: a free choice of
\* two for the leading appends, then the rest of the documented example
FpChoices(k) ==
  IF k < FreeAppends THEN {DocFps[(k % Len(DocFps)) + 1], GenFp(k + 5)}
  ELSE IF k < Len(DocFps) THEN {DocFps[k + 1]}
  ELSE {GenFp(k)}

\* the query fingerprints tried: at most MaxQueryBits bits set
Queries == {q \in SUBSET (0 .. (FpBits - 1)) : Cardinality(q) <= MaxQueryBits}

\* the bit widths of the query buffers handed to search
Widths == {FpBits - 1, FpBits, FpBits + 1}

\* the query fingerprints of one width: of a narrower buffer those with one
\* bit set, of a wider one those with bit FpBits and at most one more
QueriesOfWidth(w) ==
  IF w = FpBits THEN Queries
  ELSE IF w < FpBits THEN {{b} : b \in 0 .. (w - 1)}
  ELSE {{FpBits}} \cup {{b, FpBits} : b \in 0 .. (FpBits - 1)}

\* what an uninitialised word may hold
HeapFills == {{}, Word}

NoHeader == [ magic_number |-> 0, bits_per_word |-> 0, bits_per_fingerprint |-> 0,
              words_per_fingerprint |-> 0, words_per_fpbit |-> 0,
              num_fingerprints |-> 0 ]

IdxIdle ==
  /\ ipc = "off"
  /\ ofile = [m_header |-> NoHeader, m_current |-> 0, m_data |-> EmptyBuf]
  /\ disk = [header |-> NoHeader, payload |-> EmptyBuf]
  /\ ifile = [m_header |-> NoHeader, m_data |-> EmptyBuf]
  /\ heap = {}
  /\ fps = << >>
  /\ oob = {}
  /\ query = {}
  /\ result = EmptyBuf
  /\ cfile = [m_header |-> NoHeader, m_data |-> EmptyBuf]
  /\ cresult = EmptyBuf
  /\ qwidth = 0
  /\ reported = "nothing"

\* InvertedFingerprintOutputFile(bitsPerFingerprint, numFingerprints, filename)
IdxInit ==
  \E n \in NumFpChoices, fill \in HeapFills :
    LET h == MakeHeader(FpBits, n) IN
    /\ ipc = "writing"
    /\ heap = fill
    /\ ofile = [m_header  |-> h,
                m_current |-> 0,
                m_data    |-> NewWords(h.words_per_fpbit * h.bits_per_fingerprint, fill)]
    /\ disk = [header |-> h, payload |-> EmptyBuf]
    /\ ifile = [m_header |-> NoHeader, m_data |-> EmptyBuf]
    /\ fps = << >>
    /\ oob = {}
    /\ query = {}
    /\ result = EmptyBuf
    /\ cfile = [m_header |-> NoHeader, m_data |-> EmptyBuf]
    /\ cresult = EmptyBuf
    /\ qwidth = 0
    /\ reported = "nothing"

\* a write that also flushes the accumulation buffer to the file
WriteThrough(fingerprint) ==
  /\ UNCHANGED idxOthers
  /\ ipc = "writing"
  /\ ofile.m_current < ofile.m_header.num_fingerprints
  /\ LET r == WriteLoop(ofile.m_header, 0, fingerprint, ofile.m_current,
                        [data |-> ofile.m_data, oob |-> oob])
     IN  /\ ofile' = [ofile EXCEPT !.m_data = r.data, !.m_current = @ + 1]
         /\ oob' = r.oob
         /\ disk' = [disk EXCEPT !.payload = r.data]
  /\ fps' = Append(fps, fingerprint)
  /\ UNCHANGED <<ipc, ifile, heap, query, result, cfile, cresult, qwidth, reported>>

\* InvertedFingerprintOutputFile::write(fingerprint)
Write(fingerprint) ==
  /\ UNCHANGED idxOthers
  /\ ipc = "writing"
  /\ ofile.m_current < ofile.m_header.num_fingerprints
  /\ LET r == WriteLoop(ofile.m_header, 0, fingerprint, ofile.m_current,
                        [data |-> ofile.m_data, oob |-> oob])
     IN  /\ ofile' = [ofile EXCEPT !.m_data = r.data, !.m_current = @ + 1]
         /\ oob' = r.oob
  /\ fps' = Append(fps, fingerprint)
  /\ UNCHANGED <<ipc, disk, ifile, heap, query, result, cfile, cresult, qwidth, reported>>

\* a write outside the allocated buffer may also end the process
WriteCrash ==
  /\ UNCHANGED idxOthers
  /\ ipc = "writing"
  /\ oob # {}
  /\ ipc' = "crashed"
  /\ UNCHANGED <<ofile, disk, ifile, heap, fps, oob, query, result, cfile, cresult,
                 qwidth, reported>>

\* ~InvertedFingerprintOutputFile(): flush m_data.  The caller finalizes
\* once the declared number of fingerprints has been appended.
CloseWriter ==
  /\ UNCHANGED idxOthers
  /\ ipc = "writing"
  /\ ofile.m_current = ofile.m_header.num_fingerprints
  /\ ipc' = "closed"
  /\ disk' = [disk EXCEPT !.payload = ofile.m_data]
  /\ UNCHANGED <<ofile, ifile, heap, fps, oob, query, result, cfile, cresult,
                 qwidth, reported>>

\* InvertedFingerprintFile(filename) followed by allocate_result(); the
\* caller has opened the cached reader on the same file before
OpenReader ==
  /\ UNCHANGED idxOthers
  /\ ipc = "closed"
  /\ cfile.m_header # NoHeader
  /\ disk.header.magic_number = get_magic_number
  /\ ipc' = "opened"
  /\ ifile' = [m_header |-> disk.header,
               m_data   |-> NewWords(disk.header.words_per_fpbit, heap)]
  /\ result' = NewWords(disk.header.words_per_fpbit, heap)
  /\ cresult' = NewWords(disk.header.words_per_fpbit, heap)
  /\ UNCHANGED <<ofile, disk, heap, fps, oob, query, cfile, qwidth, reported>>

\* InvertedFingerprintFileCached(filename): the whole payload is read into
\* a new m_data
OpenCached ==
  /\ UNCHANGED idxOthers
  /\ ipc = "closed"
  /\ cfile.m_header = NoHeader
  /\ disk.header.magic_number = get_magic_number
  /\ cfile' = [m_header |-> disk.header,
               m_data   |->
                 [w \in 0 .. (disk.header.words_per_fpbit
                              * disk.header.bits_per_fingerprint - 1) |->
                    IF w \in DOMAIN disk.payload THEN disk.payload[w] ELSE heap]]
  /\ UNCHANGED <<ipc, ofile, disk, ifile, heap, fps, oob, query, result, cresult,
                 qwidth, reported>>

\* search() returns void and throws nothing, whatever the width of the
\* buffer it is given
SearchReport(h, width) == "nothing"

\* InvertedFingerprintFile::search(fingerprint, result) on a fresh result
\* buffer; width is the bit width of the caller's fingerprint buffer
Search(fingerprint, width) ==
  /\ UNCHANGED idxOthers
  /\ ipc = "opened"
  /\ ipc' = "searched"
  /\ LET r == SearchLoop(ifile.m_header, disk.payload, 0, fingerprint,
                         [first  |-> TRUE,
                          m_data |-> ifile.m_data,
                          result |-> NewWords(ifile.m_header.words_per_fpbit, heap)])
     IN  /\ ifile' = [ifile EXCEPT !.m_data = r.m_data]
         /\ result' = r.result
  /\ query' = fingerprint
  /\ qwidth' = width
  /\ reported' = SearchReport(ifile.m_header, width)
  /\ UNCHANGED <<ofile, disk, heap, fps, oob, cfile, cresult>>

\* InvertedFingerprintFileCached::search(fingerprint, result) on a fresh
\* result buffer: the caller repeats the query on the cached reader
SearchCached(fingerprint, width) ==
  /\ UNCHANGED idxOthers
  /\ cfile.m_header # NoHeader
  /\ ipc = "searched" /\ fingerprint = query /\ width = qwidth
  /\ ipc' = "compared"
  /\ cresult' = SearchLoopCached(cfile.m_header, cfile.m_data, 0, fingerprint,
                                 [first  |-> TRUE,
                                  result |-> NewWords(cfile.m_header.words_per_fpbit,
                                                      heap)]).result
  /\ query' = fingerprint
  /\ qwidth' = width
  /\ reported' = SearchReport(cfile.m_header, width)
  /\ UNCHANGED <<ofile, disk, ifile, heap, fps, oob, cfile, result>>

\* the caller takes new result buffers for the next query
NextQuery ==
  /\ UNCHANGED idxOthers
  /\ ipc \in {"searched", "compared"}
  /\ ipc' = "opened"
  /\ result' = NewWords(ifile.m_header.words_per_fpbit, heap)
  /\ cresult' = NewWords(ifile.m_header.words_per_fpbit, heap)
  /\ query' = {}
  /\ qwidth' = 0
  /\ reported' = "nothing"
  /\ UNCHANGED <<ofile, disk, ifile, heap, fps, oob, cfile>>

IdxStep ==
  \/ \E fp \in FpChoices(ofile.m_current) : Write(fp)
  \/ WriteCrash
  \/ CloseWriter
  \/ OpenReader
  \/ OpenCached
  \/ \E w \in Widths : \E q \in QueriesOfWidth(w) : Search(q, w)
  \/ \E w \in Widths : \E q \in QueriesOfWidth(w) : SearchCached(q, w)
  \/ NextQuery

----------------------------------------------------------------------------
(***************************************************************************)
(* Claims about the inverted index                                         *)
(***************************************************************************)

\* the molecule indices whose bit is set in the result buffer
ResultBits == {w * BitsPerWord + b : w \in DOMAIN result, b \in Word} \cap
              {i \in 0 .. (Cardinality(DOMAIN result) * BitsPerWord) :
                 /\ (i \div BitsPerWord) \in DOMAIN result
                 /\ (i % BitsPerWord) \in result[i \div BitsPerWord]}

\* the molecules whose fingerprint is a superset of q
Supersets(q) == {i \in 0 .. (Len(fps) - 1) : q \subseteq fps[i + 1]}

\* C1: after search(q, result) on an index built from f_0..f_{n-1}, bit i of
\* the result buffer is set iff i < n and f_i is a superset of q; for the four
\* documented 8-bit fingerprints and query 00001011 the result is {1}.
C1_SearchIsSupersetFilter ==
  (ipc = "searched" /\ qwidth = FpBits) =>
    /\ ResultBits = Supersets(query)
    /\ (fps = DocFps /\ query = DocQuery) => ResultBits = {1}

\* the documented example alone
C1_DocExample ==
  (ipc = "searched" /\ qwidth = FpBits /\ fps = DocFps /\ query = DocQuery) => ResultBits = {1}

\* the words of a buffer as allocate_result() hands them out
FreshResult == NewWords(ifile.m_header.words_per_fpbit, heap)

\* C14: a search with a query whose bit width differs from the width in the
\* index header reports an error and returns no candidate bitmap: the result
\* buffer stays as it was handed in. Both readers.
C14_WidthMismatchReported ==
  (/\ ipc \in {"searched", "compared"}
   /\ qwidth # disk.header.bits_per_fingerprint) =>
    /\ reported = "error"
    /\ result = FreshResult
    /\ cresult = FreshResult

\* ceil(n / d) for d > 0
Ceil(n, d) == (n + d - 1) \div d

\* C16: the bitmap length in the header, words_per_fpbit, is
\* ceil(n / bits_per_word) for the fingerprint count n given to the writer,
\* so every index 0..n-1 has a bit inside each bitmap.
C16_BitmapLengthIsCeil ==
  ipc # "off" =>
    LET h == ofile.m_header IN
    /\ h.words_per_fpbit = Ceil(h.num_fingerprints, h.bits_per_word)
    /\ \A i \in 0 .. (h.num_fingerprints - 1) :
         (i \div h.bits_per_word) < h.words_per_fpbit

\* bit i of the bitmap of bit position b in the flushed payload
PayloadBit(b, i) ==
  LET h == disk.header
      w == b * h.words_per_fpbit + (i \div h.bits_per_word)
  IN  /\ (i \div h.bits_per_word) < h.words_per_fpbit
      /\ w \in DOMAIN disk.payload
      /\ (i % h.bits_per_word) \in disk.payload[w]

\* C17: in the flushed payload, for every bit position b and every i < n,
\* bit i of bitmap b is 1 iff f_i has bit b set; every bit no append set,
\* those at positions >= n included, is 0.
C17_PayloadBits ==
  ipc \in {"closed", "opened", "searched", "compared"} =>
    LET h == disk.header IN
    \A b \in 0 .. (h.bits_per_fingerprint - 1) :
      /\ \A i \in 0 .. (h.num_fingerprints - 1) : PayloadBit(b, i) <=> (b \in fps[i + 1])
      /\ \A i \in h.num_fingerprints .. (h.words_per_fpbit * h.bits_per_word - 1) :
           ~PayloadBit(b, i)

\* C20: the on-demand reader and the cached reader write the same result
\* buffer for the same query on the same index file, also after earlier
\* queries on both readers.
C20_ReadersAgree ==
  ipc = "compared" => result = cresult

\* a two-bit query answered by both readers with a non-empty candidate set,
\* after the on-demand reader's buffer was used by an earlier query
C20_Witness ==
  /\ ipc = "compared" /\ qwidth = FpBits
  /\ Cardinality(query) = 2
  /\ ResultBits # {} /\ ResultBits # 0 .. (BitsPerWord - 1)
  /\ ifile.m_data # FreshResult

\* C26: a search with a query fingerprint that has no bit set, on either
\* reader, reads no bitmap and leaves every word of the result buffer as
\* the caller passed it in.
C26_EmptyQueryLeavesResult ==
  [][/\ (ipc = "opened" /\ ipc' = "searched" /\ query' = {}) =>
          (result' = result /\ ifile' = ifile)
     /\ (ipc = "searched" /\ ipc' = "compared" /\ query' = {}) =>
          (cresult' = cresult /\ cfile' = cfile)]_vars

\* both readers have searched the empty query on a buffer of zero words
\* over an index with set bits: the buffer does not hold all molecules
C26_Witness ==
  /\ ipc = "compared" /\ query = {} /\ qwidth = FpBits
  /\ heap = {}
  /\ DOMAIN result # {}
  /\ \A j \in DOMAIN result : result[j] = {} /\ cresult[j] = {}
  /\ \E w \in DOMAIN disk.payload : disk.payload[w] # {}

\* the words of the accumulation buffer that belong to bit position b
BitmapWords(h, b) == (b * h.words_per_fpbit) .. ((b + 1) * h.words_per_fpbit - 1)

\* C27: for every append of the k-th fingerprint (k below the declared
\* count) and every bit b set in it, the bit the writer sets lies inside
\* the word range of bitmap b and inside the allocated buffer.
C27_AppendStaysInOwnBitmap ==
  \A k \in 1 .. Len(fps) : \A b \in fps[k] :
    LET idx == WriteIndex(ofile.m_header, b, k - 1) IN
    /\ (idx \div BitsPerWord) \in BitmapWords(ofile.m_header, b)
    /\ InBuf(idx, ofile.m_data)

\* the same for the declared counts that are multiples of the word size
\* or leave a remainder of at least half a word
C27_WholeWordCounts ==
  (ofile.m_header.num_fingerprints % BitsPerWord = 0
     \/ 2 * (ofile.m_header.num_fingerprints % BitsPerWord) >= BitsPerWord)
    => C27_AppendStaysInOwnBitmap

\* the number of payload words of a finished index file
PayloadWords(h) == h.words_per_fpbit * h.bits_per_fingerprint

\* C24: the writer writes its header at construction, no payload during an
\* append, and the whole bitmap payload once when it is closed: before
\* close the file holds the header only, after close the header followed
\* by words_per_fpbit * bits_per_fingerprint payload words, and the file
\* changes in no step but the close.
C24_PayloadWrittenAtClose ==
  /\ [](/\ ipc # "off" => disk.header = ofile.m_header
        /\ ipc \in {"writing", "crashed"} => disk.payload = EmptyBuf
        /\ ipc \in {"closed", "opened", "searched", "compared"} =>
             /\ DOMAIN disk.payload = 0 .. (PayloadWords(disk.header) - 1)
             /\ disk.payload = ofile.m_data)
  /\ [][disk' # disk => (ipc = "writing" /\ ipc' = "closed")]_vars

\* a closed writer after 33 appends: one payload word per bit position
C24_Witness ==
  /\ ipc = "closed"
  /\ Len(fps) = 33
  /\ PayloadWords(disk.header) = FpBits
  /\ \E w \in DOMAIN disk.payload : disk.payload[w] # heap

----------------------------------------------------------------------------
(***************************************************************************)
(* Fragment mapping combiner: Smarts::search on a multi-fragment query    *)
(* and impl::enumerate_mappings.  Mappings are sequences of target atoms;  *)
(* slot s of the C++ vector is element s + 1 of the sequence.              *)
(***************************************************************************)

\* number of atoms of the target molecule
NumTargetAtoms == 3

\* largest number of mappings isomorphism_search returns for one fragment
MaxMaps == 2

TargetAtoms == 0 .. (NumTargetAtoms - 1)

\* the null sentinel of IsomorphismMapping(numQueryAtoms, -1)
NoAtom == -1

Range(f) == {f[x] : x \in DOMAIN f}

\* an overlap test that looks at the first slot of map1 only
mappings_overlap_first(map1, map2) ==
  Len(map1) > 0 /\ map1[1] \in Range(map2)

\* std::find(map2.begin(), map2.end(), map1[i]) != map2.end() for some i
mappings_overlap(map1, map2) ==
  \E i \in 1 .. Len(map1) : map1[i] \in Range(map2)

\* a translation that copies the first atom of the fragment only
TranslateFirst(map, atomMap, next, j) ==
  [map EXCEPT ![atomMap[j] + 1] = next[j]]

\* for (j = 0; j < next.size(); ++j) map[atomMaps[fragment][j]] = next[j];
RECURSIVE TranslateLoop(_, _, _, _)
TranslateLoop(map, atomMap, next, j) ==
  IF j > Len(next) THEN map
  ELSE TranslateLoop([map EXCEPT ![atomMap[j] + 1] = next[j]], atomMap, next, j + 1)

RECURSIVE SumLen(_, _)
SumLen(seqs, k) == IF k = 0 THEN 0 ELSE Len(seqs[k]) + SumLen(seqs, k - 1)

\* numQueryAtoms += num_atoms(m_query[i]) over all fragments
numQueryAtoms == SumLen(m_atomMaps, Len(m_atomMaps))

\* the candidate indices of the frames on the stack, outermost first
Indices == [k \in 1 .. Len(stack) |-> stack[k].i]

Top == stack[Len(stack)]

\* ---- inputs ----

\* translation tables of the queries tried: [C:1].[O:2], CC.O, C.CC,
\* C1.O.C1 (fragment 0 holds atoms 0 and 2) and C.N.O
QueryShapes ==
  { << <<0>>, <<1>> >>,
    << <<0, 1>>, <<2>> >>,
    << <<0>>, <<1, 2>> >>,
    << <<0, 2>>, <<1>> >>,
    << <<0>>, <<1>>, <<2>> >> }

\* the target molecule is a chain: atom a is bonded to atom a + 1
Bonded(a, b) == a - b = 1 \/ b - a = 1

\* the mappings of a connected fragment of k query atoms into the target:
\* injective, consecutive query atoms on bonded target atoms
InjectiveMaps(k) ==
  {m \in [1 .. k -> TargetAtoms] :
     /\ \A a, b \in 1 .. k : a # b => m[a] # m[b]
     /\ \A a \in 1 .. (k - 1) : Bonded(m[a], m[a + 1])}

\* lexicographic order of mappings of equal length
RECURSIVE LexLess(_, _, _)
LexLess(a, b, k) ==
  IF k > Len(a) THEN FALSE
  ELSE IF a[k] # b[k] THEN a[k] < b[k] ELSE LexLess(a, b, k + 1)

RECURSIVE SortedSeq(_)
SortedSeq(S) ==
  IF S = {} THEN << >>
  ELSE LET least == CHOOSE m \in S : \A o \in S \ {m} : LexLess(m, o, 1)
       IN  <<least>> \o SortedSeq(S \ {least})

\* the Mapping Sets isomorphism_search may return for a fragment of k atoms:
\* at most MaxMaps distinct injective mappings, in the order of the search
MappingLists(k) ==
  {SortedSeq(S) : S \in {T \in SUBSET InjectiveMaps(k) : Cardinality(T) <= MaxMaps}}

CollectorTypes == {"NoMapping", "MappingList"}

\* NoMapping::single, MappingList::single
IsSingle(c) == c = "NoMapping"

CombIdle ==
  /\ cpc = "off"
  /\ m_atomMaps = << >>
  /\ target = << >>
  /\ collector = "NoMapping"
  /\ frag = 0
  /\ mappings = << >>
  /\ stack = << >>
  /\ match = FALSE
  /\ retval = "none"
  /\ emitted = << >>
  /\ searched = << >>
  /\ tries = 0
  /\ pruned = 0

\* Smarts::search(mol, mapping, rings) entered with m_query.size() > 1
CombInit ==
  /\ cpc = "fragments"
  /\ m_atomMaps \in QueryShapes
  /\ target \in [1 .. Len(m_atomMaps) -> UNION {MappingLists(k) : k \in 1 .. 2}]
  /\ \A f \in 1 .. Len(m_atomMaps) : target[f] \in MappingLists(Len(m_atomMaps[f]))
  /\ collector \in CollectorTypes
  /\ frag = 0
  /\ mappings = [f \in 1 .. Len(m_atomMaps) |-> << >>]
  /\ stack = << >>
  /\ match = FALSE
  /\ retval = "none"
  /\ emitted = << >>
  /\ searched = << >>
  /\ tries = 0
  /\ pruned = 0

\* a fragment loop that keeps the mappings of a fragment in reverse order
FragmentFoundReversed ==
  /\ UNCHANGED combOthers
  /\ cpc = "fragments"
  /\ frag < Len(m_atomMaps)
  /\ target[frag + 1] # << >>
  /\ mappings' = [mappings EXCEPT ![frag + 1] =
                    [k \in 1 .. Len(target[frag + 1]) |->
                       target[frag + 1][Len(target[frag + 1]) + 1 - k]]]
  /\ searched' = Append(searched, frag)
  /\ frag' = frag + 1
  /\ UNCHANGED <<cpc, m_atomMaps, target, collector, stack, match, retval,
                 emitted, tries, pruned>>

\* the fragment loop: isomorphism_search(mol, m_query[i], mappings[i], ...) is true
FragmentFound ==
  /\ UNCHANGED combOthers
  /\ cpc = "fragments"
  /\ frag < Len(m_atomMaps)
  /\ target[frag + 1] # << >>
  /\ mappings' = [mappings EXCEPT ![frag + 1] = target[frag + 1]]
  /\ searched' = Append(searched, frag)
  /\ frag' = frag + 1
  /\ UNCHANGED <<cpc, m_atomMaps, target, collector, stack, match, retval,
                 emitted, tries, pruned>>

\* a fragment loop that ignores the result of isomorphism_search
FragmentEmptyGoesOn ==
  /\ UNCHANGED combOthers
  /\ cpc = "fragments"
  /\ frag < Len(m_atomMaps)
  /\ target[frag + 1] = << >>
  /\ mappings' = [mappings EXCEPT ![frag + 1] = target[frag + 1]]
  /\ searched' = Append(searched, frag)
  /\ frag' = frag + 1
  /\ UNCHANGED <<cpc, m_atomMaps, target, collector, stack, match, retval,
                 emitted, tries, pruned>>

\* the fragment loop: isomorphism_search finds nothing, return false
FragmentEmpty ==
  /\ UNCHANGED combOthers
  /\ cpc = "fragments"
  /\ frag < Len(m_atomMaps)
  /\ target[frag + 1] = << >>
  /\ mappings' = [mappings EXCEPT ![frag + 1] = target[frag + 1]]
  /\ searched' = Append(searched, frag)
  /\ retval' = FALSE
  /\ cpc' = "done"
  /\ UNCHANGED <<m_atomMaps, target, collector, frag, stack, match, emitted,
                 tries, pruned>>

\* match = false; map(numQueryAtoms, -1); enumerate_mappings(0, ...)
StartEnumerate ==
  /\ UNCHANGED combOthers
  /\ cpc = "fragments"
  /\ frag = Len(m_atomMaps)
  /\ match' = FALSE
  /\ stack' = << [fragment |-> 0, i |-> 0,
                  current |-> [s \in 1 .. numQueryAtoms |-> NoAtom]] >>
  /\ cpc' = "enumerate"
  /\ UNCHANGED <<m_atomMaps, target, collector, frag, mappings, retval, emitted,
                 searched, tries, pruned>>

\* candidate i of the top frame overlaps current: continue
EnumOverlap ==
  /\ UNCHANGED combOthers
  /\ cpc = "enumerate"
  /\ stack # << >>
  /\ Top.i < Len(mappings[Top.fragment + 1])
  /\ mappings_overlap(Top.current, mappings[Top.fragment + 1][Top.i + 1])
  /\ stack' = [stack EXCEPT ![Len(stack)].i = @ + 1]
  /\ tries' = tries + 1
  /\ pruned' = pruned + 1
  /\ UNCHANGED <<cpc, m_atomMaps, target, collector, frag, mappings, match,
                 retval, emitted, searched>>

\* candidate i is disjoint and more fragments follow: recursive call
EnumDescend ==
  /\ UNCHANGED combOthers
  /\ cpc = "enumerate"
  /\ stack # << >>
  /\ Top.i < Len(mappings[Top.fragment + 1])
  /\ ~mappings_overlap(Top.current, mappings[Top.fragment + 1][Top.i + 1])
  /\ Top.fragment + 1 < Len(mappings)
  /\ LET map == TranslateLoop(Top.current, m_atomMaps[Top.fragment + 1],
                              mappings[Top.fragment + 1][Top.i + 1], 1)
     IN  stack' = Append(stack,
                    [fragment |-> Top.fragment + 1, i |-> 0, current |-> map])
  /\ tries' = tries + 1
  /\ UNCHANGED <<cpc, m_atomMaps, target, collector, frag, mappings, match,
                 retval, emitted, searched, pruned>>

\* an emit that leaves the candidate loop after the first add_mapping
EnumEmitBreaks ==
  /\ UNCHANGED combOthers
  /\ cpc = "enumerate"
  /\ stack # << >>
  /\ Top.i < Len(mappings[Top.fragment + 1])
  /\ ~mappings_overlap(Top.current, mappings[Top.fragment + 1][Top.i + 1])
  /\ ~(Top.fragment + 1 < Len(mappings))
  /\ LET map == TranslateLoop(Top.current, m_atomMaps[Top.fragment + 1],
                              mappings[Top.fragment + 1][Top.i + 1], 1)
     IN  emitted' = Append(emitted, [map |-> map, idx |-> Indices])
  /\ match' = TRUE
  /\ stack' = [stack EXCEPT ![Len(stack)].i = Len(mappings[Top.fragment + 1])]
  /\ tries' = tries + 1
  /\ UNCHANGED <<cpc, m_atomMaps, target, collector, frag, mappings, retval,
                 searched, pruned>>

\* candidate i is disjoint and this is the last fragment: add_mapping
EnumEmit ==
  /\ UNCHANGED combOthers
  /\ cpc = "enumerate"
  /\ stack # << >>
  /\ Top.i < Len(mappings[Top.fragment + 1])
  /\ ~mappings_overlap(Top.current, mappings[Top.fragment + 1][Top.i + 1])
  /\ ~(Top.fragment + 1 < Len(mappings))
  /\ LET map == TranslateLoop(Top.current, m_atomMaps[Top.fragment + 1],
                              mappings[Top.fragment + 1][Top.i + 1], 1)
     IN  emitted' = Append(emitted, [map |-> map, idx |-> Indices])
  /\ match' = TRUE
  /\ stack' = [stack EXCEPT ![Len(stack)].i = @ + 1]
  /\ tries' = tries + 1
  /\ UNCHANGED <<cpc, m_atomMaps, target, collector, frag, mappings, retval,
                 searched, pruned>>

\* the loop of the top frame is over: return to the caller's loop, ++i there
EnumReturn ==
  /\ UNCHANGED combOthers
  /\ cpc = "enumerate"
  /\ Len(stack) > 1
  /\ Top.i >= Len(mappings[Top.fragment + 1])
  /\ stack' = [SubSeq(stack, 1, Len(stack) - 1) EXCEPT ![Len(stack) - 1].i = @ + 1]
  /\ UNCHANGED <<cpc, m_atomMaps, target, collector, frag, mappings, match,
                 retval, emitted, searched, tries, pruned>>

\* enumerate_mappings(0, ...) returns: return match
EnumFinish ==
  /\ UNCHANGED combOthers
  /\ cpc = "enumerate"
  /\ Len(stack) = 1
  /\ Top.i >= Len(mappings[Top.fragment + 1])
  /\ stack' = << >>
  /\ retval' = match
  /\ cpc' = "done"
  /\ UNCHANGED <<m_atomMaps, target, collector, frag, mappings, match, emitted,
                 searched, tries, pruned>>

CombStep ==
  \/ FragmentFound
  \/ FragmentEmpty
  \/ StartEnumerate
  \/ EnumOverlap
  \/ EnumDescend
  \/ EnumEmit
  \/ EnumReturn
  \/ EnumFinish

----------------------------------------------------------------------------
(***************************************************************************)
(* Claims about the fragment mapping combiner                              *)
(***************************************************************************)

NumFragments == Len(m_atomMaps)

\* the inputs of query "[C:1].[O:2]" on the target C-O
IsCOExample ==
  /\ m_atomMaps = << <<0>>, <<1>> >>
  /\ target = << << <<0>> >>, << <<1>> >> >>

\* no target atom sits in two slots of the mapping
NoAtomTwice(map) ==
  \A a, b \in 1 .. Len(map) : (a # b /\ map[a] # NoAtom) => map[a] # map[b]

\* C2: every global mapping the combiner emits is injective on target atoms,
\* and "[C:1].[O:2]" against C-O produces exactly one mapping.
C2_EmittedInjective ==
  /\ \A k \in 1 .. Len(emitted) : NoAtomTwice(emitted[k].map)
  /\ (cpc = "done" /\ IsCOExample) => Len(emitted) = 1

\* a mapping was emitted after an overlapping candidate had been rejected
C2_Witness == cpc = "done" /\ emitted # << >> /\ pruned > 0

\* the tuples of candidate indices, one candidate per fragment
IndexTuples ==
  {t \in [1 .. NumFragments -> 0 .. MaxMaps] :
     \A f \in 1 .. NumFragments : t[f] < Len(target[f])}

\* the tuples whose mappings use pairwise disjoint target atoms
DisjointTuples ==
  {t \in IndexTuples :
     \A f, g \in 1 .. NumFragments :
       f < g => Range(target[f][t[f] + 1]) \cap Range(target[g][t[g] + 1]) = {}}

\* the translation of a tuple into the global slots
GlobalOf(t) ==
  [s \in 1 .. numQueryAtoms |->
     LET f == CHOOSE f \in 1 .. NumFragments : (s - 1) \in Range(m_atomMaps[f])
         j == CHOOSE j \in 1 .. Len(m_atomMaps[f]) : m_atomMaps[f][j] = s - 1
     IN  target[f][t[f] + 1][j]]

\* C3: with a multi-result collector the combiner emits exactly one global
\* mapping per pairwise-disjoint tuple of fragment mappings, each the
\* translation of its tuple, and nothing else.
C3_AllDisjointTuples ==
  (cpc = "done" /\ ~IsSingle(collector)) =>
    /\ {emitted[k].idx : k \in 1 .. Len(emitted)} = DisjointTuples
    /\ Len(emitted) = Cardinality(DisjointTuples)
    /\ \A k \in 1 .. Len(emitted) : emitted[k].map = GlobalOf(emitted[k].idx)

\* several mappings were emitted and some combination was rejected
C3_Witness ==
  cpc = "done" /\ ~IsSingle(collector) /\ Len(emitted) >= 2 /\ pruned > 0

\* C4: with a single-result collector, once a mapping has been handed to the
\* collector no further candidate is tried and no second mapping is emitted.
C4_SingleStopsAtFirst ==
  [][(IsSingle(collector) /\ emitted # << >>) =>
       (tries' = tries /\ emitted' = emitted)]_vars

\* C23: fragments are searched in the order 0..N-1, the global mappings
\* are emitted in lexicographic order of their tuples of candidate indices,
\* and the first emitted mapping belongs to the lexicographically smallest
\* pairwise-disjoint tuple.
C23_EmittedInLexOrder ==
  /\ \A k \in 1 .. Len(searched) : searched[k] = k - 1
  /\ \A k \in 1 .. (Len(emitted) - 1) :
       LexLess(emitted[k].idx, emitted[k + 1].idx, 1)
  /\ emitted # << >> =>
       /\ emitted[1].idx \in DisjointTuples
       /\ \A t \in DisjointTuples \ {emitted[1].idx} : LexLess(emitted[1].idx, t, 1)

\* three fragments, several mappings emitted, and the first of them not
\* from the first candidate of every fragment
C23_Witness ==
  /\ cpc = "done"
  /\ NumFragments = 3
  /\ Len(emitted) >= 2
  /\ \E f \in 1 .. NumFragments : emitted[1].idx[f] > 0

\* the translation tables send the local indices of all fragments to
\* distinct global slots and together cover every slot
TablesCoverSlots ==
  /\ \A f, g \in 1 .. NumFragments :
       \A j \in 1 .. Len(m_atomMaps[f]) : \A k \in 1 .. Len(m_atomMaps[g]) :
         m_atomMaps[f][j] = m_atomMaps[g][k] => (f = g /\ j = k)
  /\ UNION {Range(m_atomMaps[f]) : f \in 1 .. NumFragments}
       = 0 .. (numQueryAtoms - 1)

\* C28: with translation tables that are injective and cover every slot,
\* every mapping handed to the collector has one slot per query atom and
\* no slot holds the null sentinel -1, and search returns true exactly when
\* at least one mapping was emitted.
C28_EmittedMappingsComplete ==
  TablesCoverSlots =>
    /\ \A k \in 1 .. Len(emitted) :
         /\ Len(emitted[k].map) = numQueryAtoms
         /\ \A s \in 1 .. numQueryAtoms : emitted[k].map[s] # NoAtom
    /\ cpc = "done" => ((retval = TRUE) <=> (emitted # << >>))

\* a query whose first fragment holds the atoms 0 and 2 has been matched:
\* search returned true, its mapping fills the slots 0, 1 and 2
C28_Witness ==
  /\ cpc = "done"
  /\ m_atomMaps = << <<0, 2>>, <<1>> >>
  /\ TablesCoverSlots
  /\ retval = TRUE
  /\ Len(emitted) >= 1
  /\ emitted[1].map[2] = mappings[2][emitted[1].idx[2] + 1][1]
  /\ emitted[1].map[3] = mappings[1][emitted[1].idx[1] + 1][2]

\* C5: when the isomorphism search of a fragment finds no mapping, search
\* has returned false, no later fragment was searched, the enumeration was
\* never started and nothing was handed to the collector.
C5_EmptyFragmentFailsFast ==
  \A k \in 1 .. Len(searched) :
    target[searched[k] + 1] = << >> =>
      /\ cpc = "done" /\ retval = FALSE
      /\ k = Len(searched)
      /\ stack = << >> /\ tries = 0 /\ match = FALSE
      /\ emitted = << >>

\* the second of three fragments had no mapping
C5_Witness ==
  /\ cpc = "done" /\ retval = FALSE
  /\ NumFragments = 3 /\ searched = <<0, 1>>
  /\ target[2] = << >> /\ target[3] # << >>

----------------------------------------------------------------------------
(***************************************************************************)
(* Predicate evaluator: SmartsAtomMatcher::match, SmartsBondMatcher::match *)
(* An expression node is a record: a leaf [type, value], OP_Not            *)
(* [type, arg] or a binary operator [type, left, right].                   *)
(***************************************************************************)

\* largest number of nodes of an expression tree tried
MaxNodes == 5

\* largest value of a counted atom property tried
MaxCount == 2

\* number of further candidates probed after the first evaluation
MaxProbes == 1

Leaf(t, v) == [type |-> t, value |-> v]
Not(a) == [type |-> "OP_Not", arg |-> a]
Bin(t, l, r) == [type |-> t, left |-> l, right |-> r]

\* ---- the molecule and ring set capabilities: atom a is atoms[a + 1] ----
is_aromatic(m, atom) == m.atoms[atom + 1].aromatic
get_mass(m, atom) == m.atoms[atom + 1].mass
get_element(m, atom) == m.atoms[atom + 1].element
get_degree(m, atom) == m.atoms[atom + 1].degree
get_valence(m, atom) == m.atoms[atom + 1].valence
get_connectivity(m, atom) == m.atoms[atom + 1].connectivity
num_hydrogens(m, atom) == m.atoms[atom + 1].hydrogens
get_charge(m, atom) == m.atoms[atom + 1].charge
isAtomInRing(m, atom) == m.atoms[atom + 1].numRings > 0
numRings(m, atom) == m.atoms[atom + 1].numRings
isAtomInRingSize(m, atom, size) == size \in m.atoms[atom + 1].ringSizes
numRingBonds(m, atom) == m.atoms[atom + 1].numRingBonds
get_order(m, bond) == m.bonds[bond + 1].order
is_aromatic_bond(m, bond) == m.bonds[bond + 1].aromatic
isBondInRing(m, bond) == m.bonds[bond + 1].inRing

\* the bonds of m that join atoms a and b
BondsBetween(m, a, b) ==
  {k \in 0 .. (Len(m.bonds) - 1) :
     {m.bonds[k + 1].source, m.bonds[k + 1].target} = {a, b}}

\* FOREACH_NBR (nbr, atom, mol): the neighbours of atom
Nbrs(m, atom) ==
  {b \in 0 .. (Len(m.atoms) - 1) : b # atom /\ BondsBetween(m, atom, b) # {}}

\* the AE_TotalH loop: neighbours with element 1 plus num_hydrogens
TotalH(m, atom) ==
  Cardinality({n \in Nbrs(m, atom) : get_element(m, n) = 1}) + num_hydrogens(m, atom)

\* ---- leaves ----

\* the leaf kinds that compare one number of the atom with expr->value
CountKinds ==
  {"AE_Isotope", "AE_AtomicNumber", "AE_Degree", "AE_Valence", "AE_Connectivity",
   "AE_TotalH", "AE_ImplicitH", "AE_RingMembership", "AE_RingConnectivity",
   "AE_Charge"}

\* the number a counting leaf compares
CountOf(m, atom, type) ==
  CASE type = "AE_Isotope" -> get_mass(m, atom)
    [] type = "AE_AtomicNumber" -> get_element(m, atom)
    [] type = "AE_Degree" -> get_degree(m, atom)
    [] type = "AE_Valence" -> get_valence(m, atom)
    [] type = "AE_Connectivity" -> get_connectivity(m, atom)
    [] type = "AE_TotalH" -> TotalH(m, atom)
    [] type = "AE_ImplicitH" -> num_hydrogens(m, atom)
    [] type = "AE_RingMembership" -> numRings(m, atom)
    [] type = "AE_RingConnectivity" -> numRingBonds(m, atom)
    [] type = "AE_Charge" -> get_charge(m, atom)

\* a comparison that knows no default value
CompareExact(type, v, count) == count = v

\* the comparison of a counting leaf with its parameter
Compare(type, v, count) ==
  IF type \in {"AE_ImplicitH", "AE_RingConnectivity"}
  THEN IF v = -1 THEN count >= 1 ELSE count = v
  ELSE count = v

\* an AND family without the low-precedence AND
IsAndNoLo(type) == type \in {"OP_AndHi", "OP_And"}

\* case OP_AndHi: case OP_AndLo: case OP_And:
IsAnd(type) == type \in {"OP_AndHi", "OP_AndLo", "OP_And"}

\* operands combined with & and |, which evaluate both sides
RightAlways(type, leftVal) == TRUE

\* whether && or || evaluates its right operand after the left gave leftVal
RightEvaluated(type, leftVal) == IF IsAnd(type) THEN leftVal ELSE ~leftVal

\* a lookup that always takes the first recursive sub-query
RecursiveFirst(mt, v) ==
  [mol |-> mt.m_recursiveMols[1], trees |-> mt.m_recursiveTrees[1]]

\* m_recursiveMols[expr->value], m_recursiveTrees[expr->value]
RecursiveAt(mt, v) ==
  [mol |-> mt.m_recursiveMols[v + 1], trees |-> mt.m_recursiveTrees[v + 1]]

\* the mappings of the n query atoms that put query atom 0 on atom
AnchoredMaps(m, n, atom) ==
  {f \in [1 .. n -> 0 .. (Len(m.atoms) - 1)] :
     /\ f[1] = atom
     /\ \A a, b \in 1 .. n : a # b => f[a] # f[b]}

\* ---- SmartsBondMatcher::match ----
RECURSIVE BondMatch(_, _, _, _)
BondMatch(m, bond, expr, path) ==
  LET type == expr.type
      leaf(v) == [val |-> v, trace |-> <<path>>]
  IN  CASE type = "BE_True" -> leaf(TRUE)
        [] type = "BE_False" -> leaf(FALSE)
        [] type = "BE_Single" -> leaf(get_order(m, bond) = 1)
        [] type = "BE_Double" -> leaf(get_order(m, bond) = 2)
        [] type = "BE_Triple" -> leaf(get_order(m, bond) = 3)
        [] type = "BE_Quadriple" -> leaf(get_order(m, bond) = 4)
        [] type = "BE_Aromatic" -> leaf(is_aromatic_bond(m, bond))
        [] type \in {"BE_Up", "BE_Down"} -> leaf(TRUE)
        [] type = "BE_Ring" -> leaf(isBondInRing(m, bond))
        [] type = "OP_Not" ->
             LET a == BondMatch(m, bond, expr.arg, Append(path, "arg"))
             IN  [val |-> ~a.val, trace |-> <<path>> \o a.trace]
        [] IsAnd(type) \/ type = "OP_Or" ->
             LET l == BondMatch(m, bond, expr.left, Append(path, "left"))
                 r == IF RightEvaluated(type, l.val)
                      THEN BondMatch(m, bond, expr.right, Append(path, "right"))
                      ELSE [val |-> FALSE, trace |-> << >>]
             IN  [val   |-> IF IsAnd(type) THEN l.val /\ r.val ELSE l.val \/ r.val,
                  trace |-> <<path>> \o l.trace \o r.trace]
        [] OTHER -> leaf(TRUE)

\* ---- SmartsAtomMatcher::match, with isomorphism_search(mol, atom, query,
\* mapping, atomMatcher, bondMatcher) for the recursive leaves ----
\* a placeholder leaf that passes only without a parameter
PlaceholderLeafUnset(m, atom, expr) == expr.value = -1

\* case AE_Chirality, case AE_AtomClass: return true
PlaceholderLeaf(m, atom, expr) == TRUE

\* assert(expr->value < m_recursiveMols.size());
\* assert(expr->value < m_recursiveTrees.size()); expr->value is an int
\* that the comparison converts to an unsigned size
RecursiveAsserts(mt, v) ==
  /\ v >= 0
  /\ v < Len(mt.m_recursiveMols)
  /\ v < Len(mt.m_recursiveTrees)

\* a matcher for the sub-query that does not know the tables
NestedMatcherBare(mt, sub) ==
  [m_atoms |-> sub.trees.atoms, m_recursiveMols |-> << >>,
   m_recursiveTrees |-> << >>]

\* SmartsAtomMatcher atomMatcher(m_recursiveTrees[expr->value].atoms(),
\* m_rings, m_recursiveMols, m_recursiveTrees)
NestedMatcher(mt, sub) == [mt EXCEPT !.m_atoms = sub.trees.atoms]

RECURSIVE AtomMatch(_, _, _, _, _)
RECURSIVE isomorphism_search(_, _, _, _, _)
RECURSIVE SearchAsserts(_, _, _, _)

\* whether an assertion fails in some call the search may make on the
\* atom matcher of the sub-query
SearchAsserts(m, atom, q, atomMatcher) ==
  \E f \in AnchoredMaps(m, q.numAtoms, atom) : \E a \in 1 .. q.numAtoms :
    AtomMatch(atomMatcher, m, f[a], atomMatcher.m_atoms[a], << >>).failed

isomorphism_search(m, atom, q, atomMatcher, bondTrees) ==
  \E f \in AnchoredMaps(m, q.numAtoms, atom) :
    /\ \A a \in 1 .. q.numAtoms :
         AtomMatch(atomMatcher, m, f[a], atomMatcher.m_atoms[a], << >>).val
    /\ \A k \in 1 .. Len(q.bonds) :
         \E b \in BondsBetween(m, f[q.bonds[k][1] + 1], f[q.bonds[k][2] + 1]) :
           BondMatch(m, b, bondTrees[k], << >>).val

AtomMatch(mt, m, atom, expr, path) ==
  LET type == expr.type
      leaf(v) == [val |-> v, trace |-> <<path>>, failed |-> FALSE]
  IN  CASE type = "AE_True" -> leaf(TRUE)
        [] type = "AE_False" -> leaf(FALSE)
        [] type = "AE_Aromatic" -> leaf(is_aromatic(m, atom))
        [] type = "AE_Aliphatic" -> leaf(~is_aromatic(m, atom))
        [] type = "AE_Cyclic" -> leaf(isAtomInRing(m, atom))
        [] type = "AE_Acyclic" -> leaf(~isAtomInRing(m, atom))
        [] type = "AE_AromaticElement" ->
             leaf(get_element(m, atom) = expr.value /\ is_aromatic(m, atom))
        [] type = "AE_AliphaticElement" ->
             leaf(get_element(m, atom) = expr.value /\ ~is_aromatic(m, atom))
        [] type \in CountKinds ->
             leaf(Compare(type, expr.value, CountOf(m, atom, type)))
        [] type = "AE_RingSize" -> leaf(isAtomInRingSize(m, atom, expr.value))
        [] type \in {"AE_Chirality", "AE_AtomClass"} ->
             leaf(PlaceholderLeaf(m, atom, expr))
        [] type = "AE_Recursive" ->
             IF ~RecursiveAsserts(mt, expr.value)
             THEN [val |-> FALSE, trace |-> <<path>>, failed |-> TRUE]
             ELSE
             LET sub == RecursiveAt(mt, expr.value)
                 atomMatcher == NestedMatcher(mt, sub)
             IN  [val    |-> isomorphism_search(m, atom, sub.mol, atomMatcher,
                                                sub.trees.bonds),
                  trace  |-> <<path>>,
                  failed |-> SearchAsserts(m, atom, sub.mol, atomMatcher)]
        [] type = "OP_Not" ->
             LET a == AtomMatch(mt, m, atom, expr.arg, Append(path, "arg"))
             IN  [val |-> ~a.val, trace |-> <<path>> \o a.trace, failed |-> a.failed]
        [] IsAnd(type) \/ type = "OP_Or" ->
             LET l == AtomMatch(mt, m, atom, expr.left, Append(path, "left"))
                 r == IF RightEvaluated(type, l.val)
                      THEN AtomMatch(mt, m, atom, expr.right, Append(path, "right"))
                      ELSE [val |-> FALSE, trace |-> << >>, failed |-> FALSE]
             IN  [val    |-> IF IsAnd(type) THEN l.val /\ r.val ELSE l.val \/ r.val,
                  trace  |-> <<path>> \o l.trace \o r.trace,
                  failed |-> l.failed \/ r.failed]
        [] OTHER -> leaf(TRUE)

\* ---- inputs of the evaluator ----

\* an atom none of whose properties is set
PlainAtom ==
  [element |-> 0, aromatic |-> FALSE, mass |-> 0, degree |-> 0, valence |-> 0,
   connectivity |-> 0, hydrogens |-> 0, charge |-> 0, numRings |-> 0,
   ringSizes |-> {}, numRingBonds |-> 0]

MkBond(s, t, o, a, r) ==
  [source |-> s, target |-> t, order |-> o, aromatic |-> a, inRing |-> r]

\* a fragment with two aromatic ring atoms (0, 1), a methyl carbon (2) and
\* two aliphatic ring atoms (3, 4)
RingMol ==
  LET ar == [PlainAtom EXCEPT !.element = 6, !.aromatic = TRUE, !.numRings = 1,
                               !.ringSizes = {6}, !.numRingBonds = 2, !.degree = 3]
      me == [PlainAtom EXCEPT !.element = 6, !.hydrogens = 1, !.degree = 3]
      al == [PlainAtom EXCEPT !.element = 6, !.numRings = 1, !.ringSizes = {5},
                               !.numRingBonds = 2, !.hydrogens = 1, !.degree = 3]
  IN  [atoms |-> <<ar, ar, me, al, al>>,
       bonds |-> <<MkBond(0, 1, 5, TRUE, TRUE), MkBond(1, 2, 1, FALSE, FALSE),
                   MkBond(2, 3, 2, FALSE, FALSE), MkBond(3, 4, 1, FALSE, TRUE)>>]

\* the atom properties a counting leaf reads
CountFields ==
  {"element", "mass", "degree", "valence", "connectivity", "hydrogens", "charge",
   "numRings", "numRingBonds"}

\* molecules for the counting leaves: one property of atom 0 set to c, and h
\* explicit hydrogen atoms bonded to it
CountMols ==
  {[atoms |-> <<[PlainAtom EXCEPT ![f] = c]>>
                 \o [i \in 1 .. h |-> [PlainAtom EXCEPT !.element = 1]],
    bonds |-> [i \in 1 .. h |-> MkBond(0, i, 1, FALSE, FALSE)]] :
     f \in CountFields, c \in 0 .. MaxCount, h \in 0 .. MaxCount}

\* the counting leaves tried: every kind with the parameters -1 .. MaxCount
CountLeaves == {Leaf(t, v) : t \in CountKinds, v \in -1 .. MaxCount}

BinOps == {"OP_AndHi", "OP_AndLo", "OP_And", "OP_Or"}

\* the expression trees with exactly n nodes over the given leaves
RECURSIVE TreesOfSize(_, _)
TreesOfSize(leaves, n) ==
  IF n = 1 THEN leaves
  ELSE {Not(a) : a \in TreesOfSize(leaves, n - 1)}
       \cup UNION {{Bin(t, l, r) : t \in BinOps, l \in TreesOfSize(leaves, k),
                                   r \in TreesOfSize(leaves, n - 1 - k)} :
                   k \in 1 .. (n - 2)}

Trees(leaves, n) == UNION {TreesOfSize(leaves, k) : k \in 1 .. n}

AtomTrees == Trees({Leaf("AE_Aromatic", 0), Leaf("AE_Cyclic", 0)}, MaxNodes)
BondTrees == Trees({Leaf("BE_Aromatic", 0), Leaf("BE_Ring", 0)}, MaxNodes)

\* the table of recursive sub-queries: 0 is the one-atom aromatic query [c],
\* 1 is the two-atom query [C]-[c], 2 is [R][$([C]-[c])] and nests 1
RecursiveMols ==
  << [numAtoms |-> 1, bonds |-> << >>],
     [numAtoms |-> 2, bonds |-> << <<0, 1>> >>],
     [numAtoms |-> 2, bonds |-> << <<0, 1>> >>] >>

RecursiveTrees ==
  << [atoms |-> << Leaf("AE_Aromatic", 0) >>, bonds |-> << >>],
     [atoms |-> << Leaf("AE_Aliphatic", 0), Leaf("AE_Aromatic", 0) >>,
      bonds |-> << Leaf("BE_Single", 0) >>],
     [atoms |-> << Leaf("AE_Cyclic", 0), Leaf("AE_Recursive", 1) >>,
      bonds |-> << Leaf("BE_True", 0) >>] >>

RecursiveLeaves == {Leaf("AE_Recursive", k) : k \in 0 .. (Len(RecursiveMols) - 1)}

\* trees over the recursive leaves and one plain leaf
RecursiveOuterTrees == Trees(RecursiveLeaves \cup {Leaf("AE_Cyclic", 0)}, 3)

\* the chirality and atom-class leaves with the parameters -1 .. MaxCount
PlaceholderLeaves ==
  {Leaf(t, v) : t \in {"AE_Chirality", "AE_AtomClass"}, v \in -1 .. MaxCount}

\* a placeholder leaf alone and as either operand of an AND over a small tree
PlaceholderTrees ==
  PlaceholderLeaves
  \cup {Bin(t, l, r) : t \in {"OP_AndHi", "OP_AndLo", "OP_And"},
                       l \in Trees({Leaf("AE_Aromatic", 0), Leaf("AE_Cyclic", 0)}, 2),
                       r \in PlaceholderLeaves}
  \cup {Bin(t, l, r) : t \in {"OP_AndHi", "OP_AndLo", "OP_And"},
                       l \in PlaceholderLeaves,
                       r \in Trees({Leaf("AE_Aromatic", 0), Leaf("AE_Cyclic", 0)}, 2)}

AtomMatcher(trees) ==
  [m_atoms |-> trees, m_recursiveMols |-> RecursiveMols,
   m_recursiveTrees |-> RecursiveTrees]

BondMatcher(trees) == [m_bonds |-> trees]

\* the matchers and molecules a search may hand to operator()
EvalInputs ==
  {[kind |-> "atom", mol |-> RingMol, matcher |-> AtomMatcher(<<t>>)] :
     t \in AtomTrees}
  \cup {[kind |-> "bond", mol |-> RingMol, matcher |-> BondMatcher(<<t>>)] :
          t \in BondTrees}
  \cup {[kind |-> "atom", mol |-> m, matcher |-> AtomMatcher(<<t>>)] :
          m \in CountMols, t \in CountLeaves}
  \cup {[kind |-> "atom", mol |-> RingMol, matcher |-> AtomMatcher(<<l, t>>)] :
          l \in RecursiveLeaves, t \in RecursiveOuterTrees}
  \cup {[kind |-> "atom", mol |-> RingMol, matcher |-> AtomMatcher(<<t>>)] :
          t \in PlaceholderTrees}

\* the (query element, target element) pairs operator() can be called with
Candidates(k, m, mt) ==
  IF k = "atom"
  THEN {[query |-> q, target |-> a] :
          q \in 0 .. (Len(mt.m_atoms) - 1), a \in 0 .. (Len(m.atoms) - 1)}
  ELSE {[query |-> q, target |-> b] :
          q \in 0 .. (Len(mt.m_bonds) - 1), b \in 0 .. (Len(m.bonds) - 1)}

EvalIdle ==
  /\ epc = "off" /\ kind = "atom" /\ mol = [atoms |-> << >>, bonds |-> << >>]
  /\ matcher = AtomMatcher(<< >>) /\ cand = [query |-> 0, target |-> 0]
  /\ value = FALSE /\ trace = << >> /\ seen = {} /\ probes = 0

EvalInit ==
  /\ \E in \in EvalInputs :
       /\ kind = in.kind /\ mol = in.mol /\ matcher = in.matcher
       /\ cand \in Candidates(in.kind, in.mol, in.matcher)
  /\ epc = "ready" /\ value = FALSE /\ trace = << >> /\ seen = {} /\ probes = 0

\* the outcome of operator(): value, visited nodes, and the log of calls
Evaluated(r) ==
  /\ value' = r.val
  /\ trace' = r.trace
  /\ seen' = seen \cup {[query |-> cand.query, target |-> cand.target, val |-> r.val]}
  /\ epc' = "evaluated"
  /\ UNCHANGED <<kind, mol, matcher, cand, probes>>
  /\ UNCHANGED evalOthers

\* SmartsAtomMatcher::operator()
EvaluateAtom ==
  /\ epc = "ready" /\ kind = "atom"
  /\ Evaluated(AtomMatch(matcher, mol, cand.target,
                         matcher.m_atoms[cand.query + 1], << >>))

\* SmartsBondMatcher::operator()
EvaluateBond ==
  /\ epc = "ready" /\ kind = "bond"
  /\ Evaluated(BondMatch(mol, cand.target, matcher.m_bonds[cand.query + 1], << >>))

\* the search goes on to another candidate with the same matcher
Probe ==
  /\ epc = "evaluated" /\ probes < MaxProbes
  /\ cand' \in Candidates(kind, mol, matcher)
  /\ probes' = probes + 1
  /\ epc' = "ready"
  /\ UNCHANGED <<kind, mol, matcher, value, trace, seen>>
  /\ UNCHANGED evalOthers

EvalStep == EvaluateAtom \/ EvaluateBond \/ Probe

----------------------------------------------------------------------------
(***************************************************************************)
(* Properties of the predicate evaluator                                   *)
(***************************************************************************)

\* the expression operator() evaluates for the current candidate
Expr ==
  IF kind = "atom" THEN matcher.m_atoms[cand.query + 1]
  ELSE matcher.m_bonds[cand.query + 1]

\* match applied to expression e and the current candidate
MatchOf(e) ==
  IF kind = "atom" THEN AtomMatch(matcher, mol, cand.target, e, << >>).val
  ELSE BondMatch(mol, cand.target, e, << >>).val

AndFamily == {"OP_AndHi", "OP_AndLo", "OP_And"}
IsBinary(e) == e.type \in AndFamily \cup {"OP_Or"}

\* the reference Boolean formula over the leaf predicate values
RECURSIVE RefEval(_)
RefEval(e) ==
  CASE e.type = "OP_Not" -> ~RefEval(e.arg)
    [] e.type \in AndFamily -> RefEval(e.left) /\ RefEval(e.right)
    [] e.type = "OP_Or" -> RefEval(e.left) \/ RefEval(e.right)
    [] OTHER -> MatchOf(e)

\* the paths of all nodes of e, the root being at path
RECURSIVE Paths(_, _)
Paths(e, path) ==
  {path} \cup
  (CASE e.type = "OP_Not" -> Paths(e.arg, Append(path, "arg"))
     [] IsBinary(e) -> Paths(e.left, Append(path, "left"))
                       \cup Paths(e.right, Append(path, "right"))
     [] OTHER -> {})

\* the node of e at path
RECURSIVE SubAt(_, _)
SubAt(e, path) ==
  IF path = << >> THEN e
  ELSE SubAt(CASE Head(path) = "arg" -> e.arg
               [] Head(path) = "left" -> e.left
               [] Head(path) = "right" -> e.right,
             Tail(path))

IsPrefix(p, q) == Len(p) <= Len(q) /\ SubSeq(q, 1, Len(p)) = p
Visited(p) == \E i \in 1 .. Len(trace) : trace[i] = p
VisitedBelow(p) == \E i \in 1 .. Len(trace) : IsPrefix(p, trace[i])

\* whether the right operand of binary node n is skipped
Skips(n) ==
  \/ n.type \in AndFamily /\ ~RefEval(n.left)
  \/ n.type = "OP_Or" /\ RefEval(n.left)

\* C6: evaluation short-circuits left to right. For every AND-family node
\* that is evaluated and whose left operand is false, and for every OR node
\* that is evaluated and whose left operand is true, no node of the right
\* operand's subtree is evaluated; in every other case the whole left subtree
\* is evaluated before any node of the right subtree. Atom and bond trees.
C6_ShortCircuit ==
  epc = "evaluated" =>
    \A p \in Paths(Expr, << >>) :
      LET n == SubAt(Expr, p)
          lp == Append(p, "left")
          rp == Append(p, "right")
      IN  (IsBinary(n) /\ Visited(p)) =>
            /\ Visited(lp)
            /\ IF Skips(n) THEN ~VisitedBelow(rp)
               ELSE /\ Visited(rp)
                    /\ \A i, j \in 1 .. Len(trace) :
                         (IsPrefix(lp, trace[i]) /\ IsPrefix(rp, trace[j])) => i < j

\* an OR over an AND whose left operand is false: the AND skips its right
\* operand, the OR evaluates its right operand after the left one
C6_Witness ==
  /\ epc = "evaluated" /\ kind = "bond"
  /\ Expr.type = "OP_Or" /\ Expr.left.type = "OP_AndLo"
  /\ ~RefEval(Expr.left.left)
  /\ trace = << << >>, <<"left">>, <<"left", "left">>, <<"right">> >>

\* the trees obtained from e by giving one AND-family node another variant
RECURSIVE SwapOneAnd(_)
SwapOneAnd(e) ==
  CASE e.type = "OP_Not" -> {Not(a) : a \in SwapOneAnd(e.arg)}
    [] IsBinary(e) ->
         {Bin(e.type, l, e.right) : l \in SwapOneAnd(e.left)}
         \cup {Bin(e.type, e.left, r) : r \in SwapOneAnd(e.right)}
         \cup (IF e.type \in AndFamily
               THEN {Bin(t, e.left, e.right) : t \in AndFamily \ {e.type}}
               ELSE {})
    [] OTHER -> {}

\* C7: match returns the value of the reference Boolean formula (NOT is
\* negation, OR is disjunction, the three AND variants are one conjunction
\* over the leaf values), and giving an AND node another variant does not
\* change the result. Atom and bond trees.
C7_MatchIsBooleanFormula ==
  epc = "evaluated" =>
    /\ value = RefEval(Expr)
    /\ \A e \in SwapOneAnd(Expr) : MatchOf(e) = value

\* a low-precedence AND over a high-precedence AND, all leaves true
C7_Witness ==
  /\ epc = "evaluated" /\ kind = "atom"
  /\ Expr.type = "OP_AndLo" /\ Expr.left.type = "OP_AndHi"
  /\ value = TRUE

\* C8: an implicit-hydrogen-count leaf and a ring-bond-count leaf with
\* parameter -1 are true exactly when the count is at least 1, with any other
\* parameter exactly when the count equals it; isotope, atomic number,
\* degree, valence, connectivity, total-H, ring-membership-count and charge
\* leaves test exact equality with their parameter.
C8_CountLeaves ==
  (epc = "evaluated" /\ kind = "atom") =>
    LET t == Expr.type
        v == Expr.value
        a == cand.target
        hs == Cardinality({n \in Nbrs(mol, a) : get_element(mol, n) = 1})
    IN  /\ t = "AE_ImplicitH" =>
             value = IF v = -1 THEN num_hydrogens(mol, a) >= 1
                     ELSE num_hydrogens(mol, a) = v
        /\ t = "AE_RingConnectivity" =>
             value = IF v = -1 THEN numRingBonds(mol, a) >= 1
                     ELSE numRingBonds(mol, a) = v
        /\ t = "AE_Isotope" => value = (get_mass(mol, a) = v)
        /\ t = "AE_AtomicNumber" => value = (get_element(mol, a) = v)
        /\ t = "AE_Degree" => value = (get_degree(mol, a) = v)
        /\ t = "AE_Valence" => value = (get_valence(mol, a) = v)
        /\ t = "AE_Connectivity" => value = (get_connectivity(mol, a) = v)
        /\ t = "AE_TotalH" => value = (hs + num_hydrogens(mol, a) = v)
        /\ t = "AE_RingMembership" => value = (numRings(mol, a) = v)
        /\ t = "AE_Charge" => value = (get_charge(mol, a) = v)

\* a ring-bond-count leaf without parameter on an atom with two ring bonds
C8_Witness ==
  /\ epc = "evaluated" /\ kind = "atom"
  /\ Expr = Leaf("AE_RingConnectivity", -1)
  /\ numRingBonds(mol, cand.target) = 2
  /\ value = TRUE

\* some mapping of sub-query k puts its first atom on atom a, every query
\* atom and bond matching by sub-query k's own trees
SubQueryMaps(k, a) ==
  LET q == matcher.m_recursiveMols[k + 1]
      t == matcher.m_recursiveTrees[k + 1]
      sub == [matcher EXCEPT !.m_atoms = t.atoms]
  IN  \E f \in AnchoredMaps(mol, q.numAtoms, a) :
        /\ \A i \in 1 .. q.numAtoms :
             AtomMatch(sub, mol, f[i], t.atoms[i], << >>).val
        /\ \A j \in 1 .. Len(q.bonds) :
             \E b \in BondsBetween(mol, f[q.bonds[j][1] + 1], f[q.bonds[j][2] + 1]) :
               BondMatch(mol, b, t.bonds[j], << >>).val

\* C9: a recursive leaf with sub-query index k on atom a is true exactly
\* when some mapping of sub-query k puts its anchor atom on a, the matchers
\* being built from sub-query k's trees; the one-atom aromatic sub-query is
\* true on an aromatic ring atom and false on an aliphatic ring atom; and
\* the same leaf on the same atom gives the same result however many
\* evaluations came before.
C9_RecursiveLeaf ==
  (epc = "evaluated" /\ kind = "atom" /\ Expr.type = "AE_Recursive") =>
    /\ value = SubQueryMaps(Expr.value, cand.target)
    /\ (Expr.value = 0 /\ mol = RingMol) =>
         /\ cand.target \in {0, 1} => value
         /\ cand.target \in {3, 4} => ~value
    /\ \A x, y \in seen :
         (x.query = y.query /\ x.target = y.target) => x.val = y.val

\* the nested two-atom sub-query found on the aromatic atom next to the
\* methyl group, after an earlier evaluation on another candidate
C9_Witness ==
  /\ epc = "evaluated" /\ kind = "atom"
  /\ Expr = Leaf("AE_Recursive", 2) /\ cand.target = 1
  /\ value = TRUE
  /\ Cardinality(seen) = 2

\* C25: whenever a recursive-query leaf is evaluated, also one nested
\* inside a recursive sub-query, its parameter is a valid index into the
\* table of sub-query graphs and into the table of sub-query trees, the
\* two tables have the same length, and neither assertion fails.
C25_RecursiveIndexValid ==
  (epc = "evaluated" /\ kind = "atom") =>
    /\ Len(matcher.m_recursiveMols) = Len(matcher.m_recursiveTrees)
    /\ Expr.type = "AE_Recursive" => RecursiveAsserts(matcher, Expr.value)
    /\ ~AtomMatch(matcher, mol, cand.target, Expr, << >>).failed

\* the leaf that refers to sub-query 2 has been evaluated, and with it the
\* leaf inside sub-query 2 that refers to sub-query 1
C25_Witness ==
  /\ epc = "evaluated" /\ kind = "atom"
  /\ Expr = Leaf("AE_Recursive", 2)
  /\ matcher.m_recursiveTrees[3].atoms[2] = Leaf("AE_Recursive", 1)
  /\ cand.target = 0
  /\ Len(matcher.m_recursiveMols) = 3

IsPlaceholder(e) == e.type \in {"AE_Chirality", "AE_AtomClass"}

\* C22: a chirality leaf and an atom-class leaf are true for every
\* candidate atom and every parameter, so an AND with such a leaf as one
\* operand has the value of its other operand.
C22_PlaceholderLeaves ==
  (epc = "evaluated" /\ kind = "atom") =>
    /\ IsPlaceholder(Expr) => value
    /\ (Expr.type \in AndFamily /\ IsPlaceholder(Expr.right)) =>
         value = MatchOf(Expr.left)
    /\ (Expr.type \in AndFamily /\ IsPlaceholder(Expr.left)) =>
         value = MatchOf(Expr.right)

\* an AND with an atom-class leaf with parameter 2 as right operand is true
\* on one atom after it was false on atom 3
C22_Witness ==
  /\ epc = "evaluated" /\ kind = "atom"
  /\ Expr.type = "OP_AndLo"
  /\ Expr.right = Leaf("AE_AtomClass", 2)
  /\ value = TRUE
  /\ [query |-> 0, target |-> 3, val |-> FALSE] \in seen

----------------------------------------------------------------------------
(***************************************************************************)
(* Binary container: BinaryOutputFile and BinaryInputFile (fileio/file.h). *)
(* The bodies of open and writeHeader are not part of file.h; the layout   *)
(* they produce and parse is the documented one: magic number (4 bytes),   *)
(* header length L including the terminator (4 bytes), the header, then    *)
(* the payload at 8 + L. Integers are little-endian.                       *)
(***************************************************************************)

\* longest header string tried
MaxHeaderLen == 2

\* longest payload tried
MaxPayloadLen == 3

\* the characters of the header strings and the payload bytes tried
HeaderChars == {123, 125}
PayloadBytes == {0, 1, 2}

SeqsUpTo(S, n) == UNION {[1 .. k -> S] : k \in 0 .. n}
Headers == SeqsUpTo(HeaderChars, MaxHeaderLen)

RECURSIVE Pow256(_)
Pow256(i) == IF i = 0 THEN 1 ELSE 256 * Pow256(i - 1)

\* a 32-bit unsigned integer as four bytes, least significant first
LE32(n) == [i \in 1 .. 4 |-> (n \div Pow256(i - 1)) % 256]

\* the integer four little-endian bytes stand for
FromLE32(b) == b[1] + 256 * b[2] + 65536 * b[3] + 16777216 * b[4]

\* the file a writer leaves behind for header h and payload p
Container(h, p) ==
  LE32(get_magic_number) \o LE32(Len(h) + 1) \o h \o <<0>> \o p

NoStream == [pos |-> 0, good |-> FALSE, m_json |-> << >>, m_offset |-> 0,
             m_error |-> "NoError"]

\* a writer with no header yet: the payload position of an empty header
NoOut == [data |-> << >>, header |-> << >>, pos |-> 9, m_offset |-> 9]

FileIdle ==
  /\ fpc = "off" /\ ofs = NoOut /\ fdisk = << >> /\ ifs = NoStream
  /\ hdr = << >> /\ pay = << >> /\ got = << >>
  /\ sought = -1 /\ peek = << >>

FileInit ==
  /\ fpc = "closed" /\ ofs = NoOut /\ fdisk = << >> /\ ifs = NoStream
  /\ hdr = << >> /\ pay = << >> /\ got = << >>
  /\ sought = -1 /\ peek = << >>

\* BinaryOutputFile::BinaryOutputFile(filename)
BinaryOutputFile_open ==
  /\ fpc = "closed"
  /\ fpc' = "writing"
  /\ ofs' = NoOut
  /\ UNCHANGED <<fdisk, ifs, hdr, pay, got, sought, peek>>
  /\ UNCHANGED fileOthers

\* BinaryOutputFile::write(data, 1)
BinaryOutputFile_write(b) ==
  /\ fpc = "writing" /\ Len(pay) < MaxPayloadLen
  /\ ofs' = [ofs EXCEPT !.data = Append(@, b), !.pos = @ + 1]
  /\ pay' = Append(pay, b)
  /\ UNCHANGED <<fpc, fdisk, ifs, hdr, got, sought, peek>>
  /\ UNCHANGED fileOthers

\* BinaryOutputFile::writeHeader(header), after the payload as in
\* test_binary_file
BinaryOutputFile_writeHeader(h) ==
  /\ fpc = "writing"
  /\ fpc' = "headed"
  /\ ofs' = [ofs EXCEPT !.header = h,
                         !.m_offset = 8 + Len(h) + 1,
                         !.pos = 8 + Len(h) + 1 + Len(ofs.data)]
  /\ hdr' = h
  /\ UNCHANGED <<fdisk, ifs, pay, got, sought, peek>>
  /\ UNCHANGED fileOthers

\* BinaryOutputFile::close()
BinaryOutputFile_close ==
  /\ fpc = "headed"
  /\ fpc' = "onDisk"
  /\ fdisk' = Container(ofs.header, ofs.data)
  /\ ofs' = NoOut
  /\ UNCHANGED <<ifs, hdr, pay, got, sought, peek>>
  /\ UNCHANGED fileOthers

\* BinaryInputFile::BinaryInputFile(filename): checks the magic number,
\* reads the header and leaves the stream at the first payload byte
BinaryInputFile_open ==
  /\ fpc = "onDisk"
  /\ fpc' = "reading"
  /\ ifs' =
       IF Len(fdisk) < 8 \/ FromLE32(SubSeq(fdisk, 1, 4)) # get_magic_number
       THEN [NoStream EXCEPT !.m_error = "InvalidMagic"]
       ELSE LET L == FromLE32(SubSeq(fdisk, 5, 8))
            IN  [pos |-> 8 + L, good |-> TRUE,
                 m_json |-> SubSeq(fdisk, 9, 8 + L - 1),
                 m_offset |-> 8 + L, m_error |-> "NoError"]
  /\ got' = << >>
  /\ UNCHANGED <<ofs, fdisk, hdr, pay, sought, peek>>
  /\ UNCHANGED fileOthers

\* a read that does not move the stream
ReadByteInPlace(stream, file) ==
  IF stream.good /\ stream.pos < Len(file)
  THEN [stream |-> stream, data |-> <<file[stream.pos + 1]>>]
  ELSE [stream |-> [stream EXCEPT !.good = FALSE], data |-> << >>]

\* m_ifs.read(data, 1): the byte at the stream position, which moves on by
\* one; at the end of the file the stream fails and nothing is read
ReadByte(stream, file) ==
  IF stream.good /\ stream.pos < Len(file)
  THEN [stream |-> [stream EXCEPT !.pos = @ + 1], data |-> <<file[stream.pos + 1]>>]
  ELSE [stream |-> [stream EXCEPT !.good = FALSE], data |-> << >>]

\* BinaryInputFile::tell(): tellg() is -1 on a failed stream
tell(stream) == (IF stream.good THEN stream.pos ELSE -1) - stream.m_offset

\* BinaryOutputFile::tell()
tell_out(out) == out.pos - out.m_offset

\* a seek to the physical position pos
SeekPhysical(stream, pos) ==
  IF stream.good THEN [stream EXCEPT !.pos = pos] ELSE stream

\* m_ifs.seekg(pos + m_offset): a failed stream stays where it is
SeekLogical(stream, pos) ==
  IF stream.good THEN [stream EXCEPT !.pos = pos + stream.m_offset] ELSE stream

\* BinaryInputFile::header()
header(stream) == stream.m_json

\* BinaryInputFile::read(&value, 1)
BinaryInputFile_read ==
  /\ fpc = "reading" /\ ifs.good
  /\ LET r == ReadByte(ifs, fdisk)
     IN  /\ ifs' = r.stream
         /\ got' = got \o r.data
  /\ UNCHANGED <<fpc, ofs, fdisk, hdr, pay, sought, peek>>
  /\ UNCHANGED fileOthers

\* BinaryInputFile::seek(pos)
BinaryInputFile_seek(pos) ==
  /\ fpc \in {"reading", "sought", "readAt"}
  /\ fpc' = "sought"
  /\ ifs' = SeekLogical(ifs, pos)
  /\ sought' = pos
  /\ peek' = << >>
  /\ UNCHANGED <<ofs, fdisk, hdr, pay, got>>
  /\ UNCHANGED fileOthers

\* BinaryInputFile::read(&value, 1) right after a seek
BinaryInputFile_readAt ==
  /\ fpc = "sought"
  /\ fpc' = "readAt"
  /\ LET r == ReadByte(ifs, fdisk)
     IN  /\ ifs' = r.stream
         /\ peek' = r.data
  /\ UNCHANGED <<ofs, fdisk, hdr, pay, got, sought>>
  /\ UNCHANGED fileOthers

FileStep ==
  \/ BinaryOutputFile_open
  \/ \E b \in PayloadBytes : BinaryOutputFile_write(b)
  \/ \E h \in Headers : BinaryOutputFile_writeHeader(h)
  \/ BinaryOutputFile_close
  \/ BinaryInputFile_open
  \/ BinaryInputFile_read
  \/ \E pos \in 0 .. MaxPayloadLen : BinaryInputFile_seek(pos)
  \/ BinaryInputFile_readAt

\* C10: container round-trip. After the payload bytes, then the header, were
\* written and the file closed, reopening succeeds, header() is the header
\* written, and the one-byte reads return the payload bytes in order from
\* logical position 0: every read before the end of the payload succeeds.
C10_RoundTrip ==
  fpc = "reading" =>
    /\ ifs.m_error = "NoError"
    /\ header(ifs) = hdr
    /\ got = SubSeq(pay, 1, Len(got))
    /\ ifs.good => tell(ifs) = Len(got)
    /\ ~ifs.good => got = pay

\* a header and a payload of different bytes read back completely
C10_Witness ==
  /\ fpc = "reading"
  /\ Len(hdr) >= 1 /\ Len(pay) >= 2 /\ pay[1] # pay[2]
  /\ got = pay

----------------------------------------------------------------------------
(***************************************************************************)
(* Opening a file: the constructors of InvertedFingerprintFile,            *)
(* InvertedFingerprintFileCached, BinaryInputFile and                      *)
(* InMemoryRowMajorFingerprintStorage (fileio/fingerprints.h, file.h).     *)
(* A file is described by what the constructors look at: whether it can    *)
(* be opened, its first four bytes, and the JSON header it carries.        *)
(***************************************************************************)

FileNames == {"a.hel", "b.hel"}

\* the first four bytes of the files tried
Magics == {get_magic_number, get_magic_number - 1, 0}

JsonKeys == {"num_bits", "num_fingerprints"}

\* short: the file ends before its fourth byte
NoFile == [exists |-> FALSE, short |-> TRUE, magic |-> 0, json_ok |-> FALSE,
           keys |-> {}]

\* the files tried
Files ==
  {NoFile}
  \cup {[NoFile EXCEPT !.exists = TRUE]}
  \cup {[exists |-> TRUE, short |-> FALSE, magic |-> m, json_ok |-> j, keys |-> k] :
          m \in Magics, j \in BOOLEAN, k \in SUBSET JsonKeys}

\* exceptions: the text of the message, the file it names, and the
\* condition the text states
NoThrow == [text |-> "", file |-> "", states |-> "none"]

Throw(text, file, states) == [text |-> text, file |-> file, states |-> states]

NoObject == [constructed |-> FALSE, good |-> FALSE, m_error |-> "NoError",
             payload_reads |-> 0]

Object(good, err, reads) ==
  [constructed |-> TRUE, good |-> good, m_error |-> err, payload_reads |-> reads]

\* a check that lets every file through
MagicIgnored(file) == TRUE

\* m_header.magic_number != m_header.get_magic_number(): the header starts
\* out with the right magic number and the read of a file without the
\* first four bytes leaves it there
MagicMatches(file) == file.short \/ file.magic = get_magic_number

\* InvertedFingerprintFile(filename), InvertedFingerprintFileCached(filename):
\* reads is the number of payload reads the constructor makes
InvertedCtor(name, file, reads) ==
  IF ~file.exists
  THEN [thrown |-> Throw("Could not open F for reading.", name, "open"),
        obj |-> NoObject]
  ELSE IF ~MagicMatches(file)
  THEN [thrown |-> Throw("F is not an inverted fingerprint file.", name, "magic"),
        obj |-> NoObject]
  ELSE [thrown |-> NoThrow, obj |-> Object(TRUE, "NoError", reads)]

\* BinaryInputFile::open(filename); stream is what operator bool gives after
\* a magic number was refused
ContainerOpen(file, stream) ==
  IF ~file.exists
  THEN [ret |-> FALSE, obj |-> Object(FALSE, "CouldNotOpen", 0)]
  ELSE IF file.short \/ file.magic # get_magic_number
  THEN [ret |-> FALSE, obj |-> Object(stream, "InvalidMagic", 0)]
  ELSE [ret |-> TRUE, obj |-> Object(TRUE, "NoError", 0)]

\* InMemoryRowMajorFingerprintStorage::load(filename)
Load(name, file, stream) ==
  LET f == ContainerOpen(file, stream) IN
  IF ~f.obj.good
  THEN [thrown |-> Throw("Could not open fingerprint file F", name, "open"),
        obj |-> NoObject]
  ELSE IF ~(f.ret /\ file.json_ok)
  THEN [thrown |-> Throw("reader.getFormattedErrorMessages()", "", "json"),
        obj |-> NoObject]
  ELSE IF "num_bits" \notin file.keys
  THEN [thrown |-> Throw("JSON header for file F does not contain 'num_bits' attribute",
                         name, "num_bits"),
        obj |-> NoObject]
  ELSE IF "num_fingerprints" \notin file.keys
  THEN [thrown |-> Throw("JSON header for file F does not contain 'num_fingerprints' attribute",
                         name, "num_fingerprints"),
        obj |-> NoObject]
  ELSE [thrown |-> NoThrow, obj |-> Object(TRUE, "NoError", 1)]

OpenIdle ==
  /\ xpc = "off" /\ xname = "" /\ xfile = NoFile /\ xreader = "none"
  /\ xthrown = NoThrow /\ xobj = NoObject

OpenInit ==
  /\ xpc = "file" /\ xname \in FileNames /\ xfile \in Files /\ xreader = "none"
  /\ xthrown = NoThrow /\ xobj = NoObject

Constructed(reader, r) ==
  /\ xpc = "file"
  /\ xpc' = "done"
  /\ xreader' = reader
  /\ xthrown' = r.thrown
  /\ xobj' = r.obj
  /\ UNCHANGED <<xname, xfile>>
  /\ UNCHANGED openOthers

\* InvertedFingerprintFile::InvertedFingerprintFile(filename)
InvertedFingerprintFile_ctor ==
  Constructed("InvertedFingerprintFile", InvertedCtor(xname, xfile, 0))

\* InvertedFingerprintFileCached::InvertedFingerprintFileCached(filename)
InvertedFingerprintFileCached_ctor ==
  Constructed("InvertedFingerprintFileCached", InvertedCtor(xname, xfile, 1))

\* BinaryInputFile::BinaryInputFile(filename)
BinaryInputFile_ctor ==
  \E stream \in BOOLEAN :
    Constructed("BinaryInputFile",
                [thrown |-> NoThrow, obj |-> ContainerOpen(xfile, stream).obj])

\* InMemoryRowMajorFingerprintStorage::InMemoryRowMajorFingerprintStorage(filename)
InMemoryRowMajorFingerprintStorage_ctor ==
  \E stream \in BOOLEAN :
    Constructed("InMemoryRowMajorFingerprintStorage", Load(xname, xfile, stream))

\* the caller goes on to the next file
NextFile ==
  /\ xpc = "done"
  /\ xpc' = "file"
  /\ xname' \in FileNames
  /\ xfile' \in Files
  /\ xreader' = "none" /\ xthrown' = NoThrow /\ xobj' = NoObject
  /\ UNCHANGED openOthers

OpenStep ==
  \/ InvertedFingerprintFile_ctor
  \/ InvertedFingerprintFileCached_ctor
  \/ BinaryInputFile_ctor
  \/ InMemoryRowMajorFingerprintStorage_ctor
  \/ NextFile

\* the file has four first bytes and they are not the magic number
WrongMagic(file) ==
  file.exists /\ ~file.short /\ file.magic # get_magic_number

Conditions(file) ==
  IF ~file.exists THEN {"open"}
  ELSE IF file.short \/ file.magic # get_magic_number THEN {"magic"}
  ELSE IF ~file.json_ok THEN {"json"}
  ELSE {k \in JsonKeys : k \notin file.keys}

\* C13: opening a row-major store reports each failure as its own error. A
\* file that cannot be opened, a bad magic number, a header without
\* 'num_bits' and a header without 'num_fingerprints' each abort the
\* construction with an error that names the file and states that
\* condition, so no two conditions produce the same error.
C13_DistinctLoadErrors ==
  (/\ xpc = "done" /\ xreader = "InMemoryRowMajorFingerprintStorage"
   /\ Conditions(xfile) \cap {"open", "magic", "num_bits", "num_fingerprints"} # {}) =>
    /\ ~xobj.constructed
    /\ xthrown.file = xname
    /\ xthrown.states \in Conditions(xfile)

----------------------------------------------------------------------------
(***************************************************************************)
(* Row-major fingerprint file: RowMajorFingerprintOutputFile and           *)
(* InMemoryRowMajorFingerprintStorage (fileio/fingerprints.h).  The file   *)
(* is a container (see above); here its payload is kept in words.          *)
(***************************************************************************)

\* bound: fingerprints appended to one row-major file
MaxRowFps == 3

\* the numBits values given to the writer: one word and two words wide
RowBits == {8, 65}

\* bitvec_num_words_for_bits(n): words needed for n bits
bitvec_num_words_for_bits(n) ==
  IF n % BitsPerWord = 0 THEN n \div BitsPerWord ELSE (n \div BitsPerWord) + 1

\* the fingerprints the caller appends, by bit positions
RowFingerprints(numBits) ==
  IF numBits = 8 THEN {{2, 4, 5}, {0, 4, 6, 7}}
  ELSE {{0, 64}, {1, 63}, {64}}

\* the caller's buffer for fingerprint fp: len words
WordsOf(fp, len) ==
  [k \in 0 .. (len - 1) |->
     {b % BitsPerWord : b \in {x \in fp : x \div BitsPerWord = k}}]

\* the words of buffer buf in order, as written to the file
Flat(buf, len) == [k \in 1 .. len |-> buf[k - 1]]

\* the JSON header the caller writes: num_bits and num_fingerprints
RowHeader(numBits, n) == [num_bits |-> numBits, num_fingerprints |-> n]

NoRowHeader == [num_bits |-> 0, num_fingerprints |-> 0]

NoStore == [m_numBits |-> 0, m_numFingerprints |-> 0, m_fingerprints |-> EmptyBuf]

RowIdle ==
  /\ rpc = "off"
  /\ rwriter = [m_numBytes |-> 0, numBits |-> 0, data |-> << >>]
  /\ rdisk = [header |-> NoRowHeader, payload |-> << >>]
  /\ rstore = NoStore
  /\ rfps = << >>
  /\ rindex = 0
  /\ rgot = EmptyBuf

\* RowMajorFingerprintOutputFile(filename, numBits)
RowInit ==
  \E numBits \in RowBits :
    /\ rpc = "writing"
    /\ rwriter = [m_numBytes |-> bitvec_num_words_for_bits(numBits) * (BitsPerWord \div 8),
                  numBits    |-> numBits,
                  data       |-> << >>]
    /\ rdisk = [header |-> NoRowHeader, payload |-> << >>]
    /\ rstore = NoStore
    /\ rfps = << >>
    /\ rindex = 0
    /\ rgot = EmptyBuf

\* RowMajorFingerprintOutputFile::writeFingerprint(fingerprint): m_numBytes
\* bytes of the caller's buffer go to the file
writeFingerprint(fingerprint) ==
  /\ UNCHANGED rowOthers
  /\ rpc = "writing"
  /\ Len(rfps) < MaxRowFps
  /\ LET len == rwriter.m_numBytes \div (BitsPerWord \div 8)
     IN  rwriter' = [rwriter EXCEPT
                       !.data = @ \o Flat(WordsOf(fingerprint, len), len)]
  /\ rfps' = Append(rfps, fingerprint)
  /\ UNCHANGED <<rpc, rdisk, rstore, rindex, rgot>>

\* RowMajorFingerprintOutputFile::writeHeader(header) with the width and
\* the number of fingerprints appended, then the writer goes out of scope
writeHeader ==
  /\ UNCHANGED rowOthers
  /\ rpc = "writing"
  /\ rpc' = "written"
  /\ rdisk' = [header  |-> RowHeader(rwriter.numBits, Len(rfps)),
               payload |-> rwriter.data]
  /\ UNCHANGED <<rwriter, rstore, rfps, rindex, rgot>>

\* file.read(m_fingerprints, size) into a new buffer of len words: words
\* the file does not have stay as allocated
RowRead(payload, len, fill) ==
  [w \in 0 .. (len - 1) |-> IF w + 1 <= Len(payload) THEN payload[w + 1] ELSE fill]

\* InMemoryRowMajorFingerprintStorage(filename): load
RowLoad ==
  /\ UNCHANGED rowOthers
  /\ rpc = "written"
  /\ rpc' = "loaded"
  /\ \E fill \in HeapFills :
       LET m_numBits == rdisk.header.num_bits
           m_numFingerprints == rdisk.header.num_fingerprints
       IN  rstore' = [m_numBits         |-> m_numBits,
                      m_numFingerprints |-> m_numFingerprints,
                      m_fingerprints    |->
                        RowRead(rdisk.payload,
                                bitvec_num_words_for_bits(m_numBits) * m_numFingerprints,
                                fill)]
  /\ UNCHANGED <<rwriter, rdisk, rfps, rindex, rgot>>

\* fingerprint(index) with the index taken as the word offset
FingerprintOffsetUnscaled(m_numBits, index) == index

\* fingerprint(index): the word offset added to m_fingerprints
FingerprintOffset(m_numBits, index) ==
  bitvec_num_words_for_bits(m_numBits) * index

\* InMemoryRowMajorFingerprintStorage::fingerprint(index), and the words
\* of one fingerprint the caller reads through the returned pointer
Storage_fingerprint(index) ==
  /\ UNCHANGED rowOthers
  /\ rpc \in {"loaded", "read"}
  /\ index < rstore.m_numFingerprints
  /\ rpc' = "read"
  /\ rindex' = index
  /\ LET at == FingerprintOffset(rstore.m_numBits, index)
     IN  rgot' = [k \in 0 .. (bitvec_num_words_for_bits(rstore.m_numBits) - 1) |->
                    IF at + k \in DOMAIN rstore.m_fingerprints
                    THEN rstore.m_fingerprints[at + k]
                    ELSE {}]
  /\ UNCHANGED <<rwriter, rdisk, rstore, rfps>>

RowStep ==
  \/ \E fp \in RowFingerprints(rwriter.numBits) : writeFingerprint(fp)
  \/ writeHeader
  \/ RowLoad
  \/ \E index \in 0 .. (MaxRowFps - 1) : Storage_fingerprint(index)

\* C15: row-major round trip.  After f_0..f_{n-1} were appended and a
\* header with num_bits and num_fingerprints = n was written, fingerprint(i)
\* of the loaded store points at words bit-identical to f_i, and these are
\* the words at base + i * words-per-fingerprint.
C15_RowRoundTrip ==
  rpc = "read" =>
    LET wpf == Ceil(rstore.m_numBits, BitsPerWord) IN
    /\ rstore.m_numFingerprints = Len(rfps)
    /\ DOMAIN rgot = 0 .. (wpf - 1)
    /\ \A b \in 0 .. (rstore.m_numBits - 1) :
         ((b % BitsPerWord) \in rgot[b \div BitsPerWord]) <=> (b \in rfps[rindex + 1])
    /\ \A k \in 0 .. (wpf - 1) :
         rgot[k] = rstore.m_fingerprints[rindex * wpf + k]

\* the second of three two-word fingerprints, different from the first, is
\* read back
C15_Witness ==
  /\ rpc = "read"
  /\ rstore.m_numBits = 65
  /\ Len(rfps) = 3
  /\ rindex = 1
  /\ rfps[1] # rfps[2]
  /\ 64 \in rfps[2]
  /\ rgot = WordsOf(rfps[2], 2)

----------------------------------------------------------------------------
(***************************************************************************)
(* Ownership of expression nodes: impl::SmartsTrees (algorithms/smarts.h). *)
(* A node lives at an address of theap; a pointer is an address, 0 is the  *)
(* null pointer.  The union {value, arg, left} of a node is its one slot.  *)
(***************************************************************************)

\* bound: SmartsTrees objects in one run
MaxObjects == 3

\* bound: expression nodes allocated in one run
MaxHeapNodes == 16

Objects == 1 .. MaxObjects

\* the types whose cleanup and copy follow left and right
BinaryTypes == {"OP_AndHi", "OP_AndLo", "OP_And", "OP_Or"}

\* new SmartsAtomExpr(type, value) / (type, arg) / (type, left, right), one
\* per node of tree, children first: the heap after it and the root's address
RECURSIVE Build(_, _)
Build(h, tree) ==
  IF tree.type \in BinaryTypes
  THEN LET l == Build(h, tree.left)
           r == Build(l.heap, tree.right)
       IN  [heap |-> Append(r.heap, [type |-> tree.type, slot |-> l.root, right |-> r.root]),
            root |-> Len(r.heap) + 1]
  ELSE IF tree.type = "OP_Not"
  THEN LET a == Build(h, tree.arg)
       IN  [heap |-> Append(a.heap, [type |-> tree.type, slot |-> a.root, right |-> 0]),
            root |-> Len(a.heap) + 1]
  ELSE [heap |-> Append(h, [type |-> tree.type, slot |-> tree.value, right |-> 0]),
        root |-> Len(h) + 1]

\* the atom expressions the parser hands to addAtom
OwnedAtomTrees ==
  {Leaf("AE_Charge", 1),
   Not(Leaf("AE_Aromatic", 0)),
   Bin("OP_AndHi", Leaf("AE_AtomicNumber", 2), Not(Leaf("AE_Charge", 1))),
   Bin("OP_Or", Bin("OP_AndLo", Leaf("AE_Degree", 1), Leaf("AE_Charge", 3)),
       Leaf("AE_Cyclic", 0))}

\* the bond expressions the parser hands to addBond
OwnedBondTrees ==
  {Leaf("BE_Single", 0),
   Bin("OP_And", Leaf("BE_Ring", 0), Not(Leaf("BE_Double", 0)))}

\* number of nodes of the tree at expr
RECURSIVE TreeSize(_, _)
TreeSize(h, expr) ==
  IF h[expr].type \in BinaryTypes
  THEN 1 + TreeSize(h, h[expr].slot) + TreeSize(h, h[expr].right)
  ELSE IF h[expr].type = "OP_Not" THEN 1 + TreeSize(h, h[expr].slot)
  ELSE 1

RECURSIVE TreeSizes(_, _)
TreeSizes(h, roots) ==
  IF roots = << >> THEN 0
  ELSE TreeSize(h, Head(roots)) + TreeSizes(h, Tail(roots))

\* SmartsTrees::copy(expr): a new node for every node of the tree at expr
RECURSIVE copy(_, _)
copy(h, expr) ==
  LET n == h[expr] IN
  IF n.type \in BinaryTypes
  THEN LET l == copy(h, n.slot)
           r == copy(l.heap, n.right)
       IN  [heap |-> Append(r.heap, [type |-> n.type, slot |-> l.root, right |-> r.root]),
            root |-> Len(r.heap) + 1]
  ELSE IF n.type = "OP_Not"
  THEN LET a == copy(h, n.slot)
       IN  [heap |-> Append(a.heap, [type |-> n.type, slot |-> a.root, right |-> 0]),
            root |-> Len(a.heap) + 1]
  ELSE [heap |-> Append(h, n), root |-> Len(h) + 1]

\* copy of every tree of roots: the heap after it and the new roots
RECURSIVE CopyAll(_, _)
CopyAll(h, roots) ==
  IF roots = << >> THEN [heap |-> h, roots |-> << >>]
  ELSE LET c == copy(h, Head(roots))
           rest == CopyAll(c.heap, Tail(roots))
       IN  [heap |-> rest.heap, roots |-> <<c.root>> \o rest.roots]

\* cleanup that deletes expr only
cleanupShallow(h, freed, expr) == [freed EXCEPT ![expr] = @ + 1]

\* SmartsTrees::cleanup(expr): the delete counts after it
RECURSIVE cleanup(_, _, _)
cleanup(h, freed, expr) ==
  LET type == h[expr].type
      below == IF type \in {"OP_AndHi", "OP_AndLo", "OP_And", "OP_Or"}
               THEN cleanup(h, cleanup(h, freed, h[expr].slot), h[expr].right)
               ELSE IF type = "OP_Not"
               THEN cleanup(h, freed, h[expr].slot)
               ELSE freed
  IN  [below EXCEPT ![expr] = @ + 1]

\* cleanup of every tree of roots
RECURSIVE CleanupAll(_, _, _)
CleanupAll(h, freed, roots) ==
  IF roots = << >> THEN freed
  ELSE CleanupAll(h, cleanup(h, freed, Head(roots)), Tail(roots))

NoTrees == [state |-> "none", m_atoms |-> << >>, m_bonds |-> << >>]

\* delete counts for a heap grown to len nodes
Grown(freed, len) == freed \o [k \in 1 .. (len - Len(freed)) |-> 0]

TreesIdle ==
  /\ tpc = "off"
  /\ theap = << >>
  /\ tfreed = << >>
  /\ tobjs = [o \in Objects |-> NoTrees]

\* SmartsTrees() followed by the parser's addAtom(expr) and addBond(expr)
TreesInit ==
  \E atom \in OwnedAtomTrees, bond \in OwnedBondTrees :
    LET a == Build(<< >>, atom)
        b == Build(a.heap, bond)
    IN  /\ tpc = "run"
        /\ theap = b.heap
        /\ tfreed = Grown(<< >>, Len(b.heap))
        /\ tobjs = [o \in Objects |->
                      IF o = 1
                      THEN [state |-> "live", m_atoms |-> <<a.root>>, m_bonds |-> <<b.root>>]
                      ELSE NoTrees]

\* SmartsTrees(const SmartsTrees &other): object o is constructed from other
CopyConstruct(o, other) ==
  /\ UNCHANGED treesOthers
  /\ tpc = "run"
  /\ tobjs[o].state = "none"
  /\ tobjs[other].state = "live"
  /\ Len(theap) + TreeSizes(theap, tobjs[other].m_atoms \o tobjs[other].m_bonds)
       <= MaxHeapNodes
  /\ LET a == CopyAll(theap, tobjs[other].m_atoms)
         b == CopyAll(a.heap, tobjs[other].m_bonds)
     IN  /\ theap' = b.heap
         /\ tfreed' = Grown(tfreed, Len(b.heap))
         /\ tobjs' = [tobjs EXCEPT ![o] = [state |-> "live", m_atoms |-> a.roots,
                                            m_bonds |-> b.roots]]
  /\ UNCHANGED tpc

\* operator=(const SmartsTrees &other) on object o: the trees of o are
\* cleaned up and replaced by copies of other's; o = o changes nothing
Assign(o, other) ==
  /\ UNCHANGED treesOthers
  /\ tpc = "run"
  /\ tobjs[o].state = "live"
  /\ tobjs[other].state = "live"
  /\ Len(theap) + TreeSizes(theap, tobjs[other].m_atoms \o tobjs[other].m_bonds)
       <= MaxHeapNodes
  /\ IF o = other
     THEN UNCHANGED <<theap, tfreed, tobjs>>
     ELSE LET cleaned == CleanupAll(theap, tfreed, tobjs[o].m_atoms \o tobjs[o].m_bonds)
              a == CopyAll(theap, tobjs[other].m_atoms)
              b == CopyAll(a.heap, tobjs[other].m_bonds)
          IN  /\ theap' = b.heap
              /\ tfreed' = Grown(cleaned, Len(b.heap))
              /\ tobjs' = [tobjs EXCEPT ![o] = [state |-> "live", m_atoms |-> a.roots,
                                                 m_bonds |-> b.roots]]
  /\ UNCHANGED tpc

\* ~SmartsTrees() on object o: cleanup of every atom and bond tree
Destroy(o) ==
  /\ UNCHANGED treesOthers
  /\ tpc = "run"
  /\ tobjs[o].state = "live"
  /\ tfreed' = CleanupAll(theap, tfreed, tobjs[o].m_atoms \o tobjs[o].m_bonds)
  /\ tobjs' = [tobjs EXCEPT ![o].state = "dead"]
  /\ UNCHANGED <<tpc, theap>>

TreesStep ==
  \/ \E o \in Objects, other \in Objects : CopyConstruct(o, other)
  \/ \E o \in Objects, other \in Objects : Assign(o, other)
  \/ \E o \in Objects : Destroy(o)

\* the addresses reachable from expr through child pointers
RECURSIVE Subtree(_, _)
Subtree(h, expr) ==
  {expr} \cup
    (IF h[expr].type \in BinaryTypes
     THEN Subtree(h, h[expr].slot) \cup Subtree(h, h[expr].right)
     ELSE IF h[expr].type = "OP_Not" THEN Subtree(h, h[expr].slot)
     ELSE {})

\* the nodes of all trees of object o
NodesOf(o) ==
  UNION {Subtree(theap, (tobjs[o].m_atoms \o tobjs[o].m_bonds)[k]) :
           k \in 1 .. (Len(tobjs[o].m_atoms) + Len(tobjs[o].m_bonds))}

Live == {o \in Objects : tobjs[o].state = "live"}

\* C18: exclusive ownership.  After any sequence of copy constructions,
\* assignments and destructions no node is reachable from two live
\* SmartsTrees objects, a node of a live object was never deleted, and every
\* other node was deleted exactly once.
C18_ExclusiveOwnership ==
  tpc = "run" =>
    \A n \in 1 .. Len(theap) :
      LET owners == {o \in Live : n \in NodesOf(o)} IN
      /\ Cardinality(owners) <= 1
      /\ tfreed[n] = (IF owners = {} THEN 1 ELSE 0)

\* a copy was made, the original was assigned from another object and a
\* query with a combinator tree was destroyed
C18_Witness ==
  /\ tpc = "run"
  /\ tobjs[1].state = "dead"
  /\ tobjs[2].state = "live"
  /\ tobjs[3].state = "live"
  /\ theap[tobjs[2].m_atoms[1]].type \in BinaryTypes
  /\ \E n \in 1 .. Len(theap) : tfreed[n] = 1 /\ theap[n].type \in BinaryTypes
  /\ Len(theap) > 2 * Cardinality(NodesOf(2))

----------------------------------------------------------------------------
(***************************************************************************)
(* Two threads calling search() on one reader object, each with its own    *)
(* result buffer.  A step is one statement of search(): m_ifs.seekg,       *)
(* m_ifs.read, or the loop that copies or intersects the bitmap into the   *)
(* result.  Stream positions are counted in words from the payload start.  *)
(***************************************************************************)

\* bound: bits per fingerprint of the index the threads search
RaceBits == 3

Threads == {1, 2}

\* the index file: 64 fingerprints, fingerprint i < 2^RaceBits has the bits
\* of the binary number i, the others none
RaceHeader == MakeHeader(RaceBits, BitsPerWord)

RacePayload ==
  [b \in 0 .. (RaceBits - 1) |->
     {i \in 0 .. (2 ^ RaceBits - 1) : (i \div (2 ^ b)) % 2 = 1}]

\* the queries of the threads: one or two bits set
RaceQueries ==
  {q \in SUBSET (0 .. (RaceBits - 1)) : Cardinality(q) \in {1, 2}}

\* the next i >= from whose bit is set in fingerprint, bits_per_fingerprint
\* if the loop ends
RECURSIVE NextSetBit(_, _, _)
NextSetBit(h, fingerprint, from) ==
  IF from >= h.bits_per_fingerprint THEN h.bits_per_fingerprint
  ELSE IF bitvec_get(from, fingerprint) THEN from
  ELSE NextSetBit(h, fingerprint, from + 1)

NoThread == [pc |-> "idle", fingerprint |-> {}, i |-> 0, first |-> TRUE, result |-> EmptyBuf]

RaceIdle ==
  /\ kreader = "none"
  /\ kobj = [m_header |-> NoHeader, m_ifs |-> [pos |-> 0, good |-> FALSE], m_data |-> EmptyBuf]
  /\ kth = [t \in Threads |-> NoThread]

\* one of the two readers is constructed on the index file; the on-demand
\* reader's m_data is allocated and not filled, its stream stands behind
\* the header
RaceInit ==
  \E reader \in {"InvertedFingerprintFile", "InvertedFingerprintFileCached"},
     fill \in HeapFills :
    /\ kreader = reader
    /\ kobj = [m_header |-> RaceHeader,
               m_ifs    |-> [pos |-> 0, good |-> reader = "InvertedFingerprintFile"],
               m_data   |-> IF reader = "InvertedFingerprintFile"
                            THEN NewWords(RaceHeader.words_per_fpbit, fill)
                            ELSE RacePayload]
    /\ kth = [t \in Threads |-> NoThread]

\* thread t enters search(fingerprint, result) with a result buffer from
\* allocate_result() and runs to the first set bit
Call(t, fingerprint) ==
  /\ UNCHANGED raceOthers
  /\ kreader # "none"
  /\ kth[t].pc = "idle"
  /\ LET i == NextSetBit(kobj.m_header, fingerprint, 0) IN
     kth' = [kth EXCEPT ![t] =
               [pc          |-> IF i >= kobj.m_header.bits_per_fingerprint THEN "done"
                                ELSE IF kreader = "InvertedFingerprintFile" THEN "seekg"
                                ELSE "combine",
                fingerprint |-> fingerprint,
                i           |-> i,
                first       |-> TRUE,
                result      |-> NewWords(kobj.m_header.words_per_fpbit, {})]]
  /\ UNCHANGED <<kreader, kobj>>

\* m_ifs.seekg(sizeof(header) + offset * sizeof(Word)): nothing happens on
\* a failed stream
Seekg(t) ==
  /\ UNCHANGED raceOthers
  /\ kth[t].pc = "seekg"
  /\ kobj' = [kobj EXCEPT !.m_ifs.pos =
                IF kobj.m_ifs.good THEN kth[t].i * kobj.m_header.words_per_fpbit ELSE @]
  /\ kth' = [kth EXCEPT ![t].pc = "read"]
  /\ UNCHANGED kreader

\* m_ifs.read(m_data, words_per_fpbit words) at the position the shared
\* stream has now; a read behind the end of the file fails the stream and
\* leaves m_data as it is
Read(t) ==
  /\ UNCHANGED raceOthers
  /\ kth[t].pc = "read"
  /\ LET h == kobj.m_header
         inside == kobj.m_ifs.pos + h.words_per_fpbit <= h.words_per_fpbit * h.bits_per_fingerprint
     IN  kobj' = IF kobj.m_ifs.good /\ inside
                 THEN [kobj EXCEPT !.m_data = ReadBitmap(h, RacePayload, kobj.m_ifs.pos),
                                   !.m_ifs.pos = @ + h.words_per_fpbit]
                 ELSE [kobj EXCEPT !.m_ifs.good = FALSE]
  /\ kth' = [kth EXCEPT ![t].pc = "combine"]
  /\ UNCHANGED kreader

\* the copy (first) or AND loop over the words of the bitmap, then on to
\* the next set bit; the on-demand reader takes the bitmap from the shared
\* m_data, the cached reader from m_data + offset
Combine(t) ==
  /\ UNCHANGED raceOthers
  /\ kth[t].pc = "combine"
  /\ LET h == kobj.m_header
         data == IF kreader = "InvertedFingerprintFile" THEN kobj.m_data
                 ELSE CachedBitmap(h, kobj.m_data, kth[t].i * h.words_per_fpbit)
         i == NextSetBit(h, kth[t].fingerprint, kth[t].i + 1)
     IN  kth' = [kth EXCEPT
                   ![t].result = [j \in DOMAIN @ |->
                                    IF kth[t].first THEN data[j] ELSE @[j] \cap data[j]],
                   ![t].first = FALSE,
                   ![t].i = i,
                   ![t].pc = IF i >= h.bits_per_fingerprint THEN "done"
                             ELSE IF kreader = "InvertedFingerprintFile" THEN "seekg"
                             ELSE "combine"]
  /\ UNCHANGED <<kreader, kobj>>

RaceStep ==
  \/ \E t \in Threads, q \in RaceQueries : Call(t, q)
  \/ \E t \in Threads : Seekg(t)
  \/ \E t \in Threads : Read(t)
  \/ \E t \in Threads : Combine(t)

\* what search(fingerprint, result) writes when it runs alone
Solo(fingerprint) ==
  SearchLoop(RaceHeader, RacePayload, 0, fingerprint,
             [first  |-> TRUE,
              m_data |-> NewWords(RaceHeader.words_per_fpbit, {}),
              result |-> NewWords(RaceHeader.words_per_fpbit, {})]).result

\* C19: searches need no locking.  For every interleaving of two search
\* calls on the same reader object, each call leaves in its own result
\* buffer what it leaves there when it runs alone.
C19_NoLockingNeeded ==
  \A t \in Threads :
    kth[t].pc = "done" => kth[t].result = Solo(kth[t].fingerprint)

\* the same for the cached reader only, whose search() writes nothing but
\* the caller's result buffer
C19_CachedReaderOnly ==
  kreader = "InvertedFingerprintFileCached" => C19_NoLockingNeeded

----------------------------------------------------------------------------
(***************************************************************************)
(* operator< on std::vector (util/vector.h)                                *)
(***************************************************************************)

\* bound: length of the vectors compared
MaxVecLen == 2

\* the element values of the vectors
VecElems == {0, 1, 2}

Vectors == UNION {[1 .. n -> VecElems] : n \in 0 .. MaxVecLen}

\* v[i] for the 0-based index i; an index behind the end reads junk
VecAt(v, i, junk) == IF i < Len(v) THEN v[i + 1] ELSE junk

\* the loop of operator<: for (i = from; i < v1.size(); ++i)
RECURSIVE LessLoop(_, _, _, _)
LessLoop(v1, v2, i, junk) ==
  IF i >= Len(v1) THEN [value |-> FALSE, oob |-> FALSE]
  ELSE LET r == IF VecAt(v1, i, junk) < VecAt(v2, i, junk)
                THEN [value |-> TRUE, oob |-> FALSE]
                ELSE IF VecAt(v1, i, junk) > VecAt(v2, i, junk)
                THEN [value |-> FALSE, oob |-> FALSE]
                ELSE LessLoop(v1, v2, i + 1, junk)
       IN  [r EXCEPT !.oob = @ \/ i >= Len(v2)]

\* operator<(v1, v2): what it returns and whether it read v2 behind its
\* end, where it finds junk
operator_less(v1, v2, junk) ==
  IF Len(v1) < Len(v2) THEN [value |-> TRUE, oob |-> FALSE]
  ELSE LessLoop(v1, v2, 0, junk)

NoCompare == [ab |-> FALSE, ba |-> FALSE, oob |-> FALSE]

VecIdle ==
  /\ vpc = "off"
  /\ va = << >>
  /\ vb = << >>
  /\ vlt = NoCompare

VecInit ==
  /\ vpc = "given"
  /\ va \in Vectors
  /\ vb \in Vectors
  /\ vlt = NoCompare

\* the caller evaluates a < b and b < a
CompareVectors ==
  /\ UNCHANGED vecOthers
  /\ vpc = "given"
  /\ vpc' = "compared"
  /\ \E junk \in VecElems :
       LET ab == operator_less(va, vb, junk)
           ba == operator_less(vb, va, junk)
       IN  vlt' = [ab |-> ab.value, ba |-> ba.value, oob |-> ab.oob \/ ba.oob]
  /\ UNCHANGED <<va, vb>>

VecStep ==
  \/ CompareVectors

\* C30: operator< is a strict order.  a < b and b < a are never both
\* true, a < a is false, and no comparison reads an element behind the end
\* of a vector.
C30_StrictOrder ==
  vpc = "compared" =>
    /\ ~(vlt.ab /\ vlt.ba)
    /\ (va = vb => ~vlt.ab)
    /\ ~vlt.oob

----------------------------------------------------------------------------
(***************************************************************************)
(* FingerprintFile: a record count followed by records of m_numWords       *)
(* words, read one record per call (fileio/fingerprints.h).                *)
(***************************************************************************)

\* m_numWords = 16
NumWords == 16

\* bound: the record count stored in the file
MaxFileFps == 3

\* bound: read_fingerprint calls on one object
MaxReadCalls == 6

\* the words that follow the last counted record in the file
TrailingWords == {0, 1, NumWords \div 2, NumWords, NumWords + 1, 2 * NumWords}

FpIdle ==
  /\ gpc = "off"
  /\ gfile = [num_fingerprints |-> 0, words |-> 0]
  /\ gobj = [good |-> FALSE, pos |-> 0, m_numFingerprints |-> 0, m_current |-> 0]
  /\ ghist = << >>

\* FingerprintFile(filename) on a file holding its count, that many
\* records and possibly more words: read32(m_ifs, m_numFingerprints),
\* m_current(-1).  m_current is unsigned; -1 stands for the value that
\* becomes 0 with the first increment.
FpInit ==
  \E n \in 0 .. MaxFileFps, more \in TrailingWords :
    /\ gpc = "open"
    /\ gfile = [num_fingerprints |-> n, words |-> n * NumWords + more]
    /\ gobj = [good |-> TRUE, pos |-> 0, m_numFingerprints |-> n, m_current |-> -1]
    /\ ghist = << >>

\* for (i = 0; i < m_numWords; ++i) read64(m_ifs, fingerprint[i]): the
\* words the stream still has are read, a missing word fails the stream
ReadRecord(obj, file) ==
  LET have == file.words - obj.pos
      n == IF have >= NumWords THEN NumWords ELSE have
  IN  [obj |-> [obj EXCEPT !.pos = @ + n, !.good = have >= NumWords], read |-> n]

\* FingerprintFile::read_fingerprint(fingerprint)
read_fingerprint ==
  /\ UNCHANGED fpOthers
  /\ gpc = "open"
  /\ Len(ghist) < MaxReadCalls
  /\ IF ~gobj.good
     THEN /\ ghist' = Append(ghist, [ret |-> FALSE, current |-> gobj.m_current, read |-> 0])
          /\ UNCHANGED gobj
     ELSE LET current == gobj.m_current + 1 IN
          IF current = gobj.m_numFingerprints
          THEN /\ gobj' = [gobj EXCEPT !.m_current = current]
               /\ ghist' = Append(ghist, [ret |-> FALSE, current |-> current, read |-> 0])
          ELSE LET r == ReadRecord([gobj EXCEPT !.m_current = current], gfile) IN
               /\ gobj' = r.obj
               /\ ghist' = Append(ghist, [ret |-> r.obj.good, current |-> current,
                                          read |-> r.read])
  /\ UNCHANGED <<gpc, gfile>>

FpStep ==
  \/ read_fingerprint

\* C29: read_fingerprint delivers at most num_fingerprints() records.  The
\* first num_fingerprints() calls return true with current() = 0, 1, ...;
\* every later call returns false and reads nothing, whatever follows the
\* records in the file.
C29_AtMostNumFingerprints ==
  gpc = "open" =>
    \A k \in 1 .. Len(ghist) :
      IF k <= gfile.num_fingerprints
      THEN ghist[k].ret /\ ghist[k].current = k - 1 /\ ghist[k].read = NumWords
      ELSE ~ghist[k].ret /\ ghist[k].read = 0

----------------------------------------------------------------------------
(***************************************************************************)
(* Dijkstra (algorithms/dijkstra.h).  Atoms are their indices 0..n-1.      *)
(***************************************************************************)

\* bound: atoms of the molecule
DijkstraAtoms == 4

\* std::numeric_limits<Size>::max(), kept inside the integers of the model
infinity == 2147483647

\* molecule_traits<MoleculeType>::null_atom()
null_atom == -1

DAtoms == 0 .. (DijkstraAtoms - 1)

\* get_nbrs(mol, u)
get_nbrs(m, u) == {v \in 0 .. (m.n - 1) : {u, v} \in m.bonds}

\* the atoms of Q whose m_dist is smallest: Q.front() of the heap built by
\* make_heap is one of them
HeapFront(Q, m_dist) == {u \in Q : \A w \in Q : m_dist[u] <= m_dist[w]}

\* the for loop over the neighbours v of u: alt = m_dist[u] + 1 replaces a
\* larger m_dist[v] and u becomes m_prev[v]
Relax(m, obj, u) ==
  LET alt == obj.m_dist[u] + 1
      better == {v \in get_nbrs(m, u) : v \in obj.atomMask /\ alt < obj.m_dist[v]}
  IN  [obj EXCEPT !.m_dist = [v \in DOMAIN @ |-> IF v \in better THEN alt ELSE @[v]],
                  !.m_prev = [v \in DOMAIN @ |-> IF v \in better THEN u ELSE @[v]]]

DijIdle ==
  /\ dpc = "off"
  /\ dmol = [n |-> 0, bonds |-> {}]
  /\ dobj = [m_source |-> 0, atomMask |-> {}, Q |-> {}, m_dist |-> << >>, m_prev |-> << >>]
  /\ dtarget = 0
  /\ dans = [distance |-> 0, path |-> << >>]

\* Dijkstra(mol, source) and Dijkstra(mol, source, atomMask) with the source
\* inside the mask, up to the first test of the while loop: Q holds the
\* atoms of the mask, m_dist is 0 for the source and max for the others
DijInit ==
  \E bonds \in SUBSET {{a, b} : a, b \in DAtoms}, source \in DAtoms,
     atomMask \in SUBSET DAtoms :
    /\ \A e \in bonds : Cardinality(e) = 2
    /\ source \in atomMask
    /\ dpc = "run"
    /\ dmol = [n |-> DijkstraAtoms, bonds |-> bonds]
    /\ dobj = [m_source |-> source,
               atomMask |-> atomMask,
               Q        |-> atomMask,
               m_dist   |-> [a \in DAtoms |-> IF a = source THEN 0 ELSE infinity],
               m_prev   |-> [a \in DAtoms |-> null_atom]]
    /\ dtarget = 0
    /\ dans = [distance |-> 0, path |-> << >>]

\* one round of while (Q.size()): u = Q.front() is popped; the loop ends
\* if m_dist[u] is max, else the neighbours of u are relaxed
DijkstraRound ==
  /\ UNCHANGED dijOthers
  /\ dpc = "run"
  /\ dobj.Q # {}
  /\ \E u \in HeapFront(dobj.Q, dobj.m_dist) :
       IF dobj.m_dist[u] = infinity
       THEN /\ dpc' = "done"
            /\ dobj' = [dobj EXCEPT !.Q = @ \ {u}]
       ELSE /\ dpc' = "run"
            /\ dobj' = Relax(dmol, [dobj EXCEPT !.Q = @ \ {u}], u)
  /\ UNCHANGED <<dmol, dtarget, dans>>

\* the while loop ends with Q empty
DijkstraEnd ==
  /\ UNCHANGED dijOthers
  /\ dpc = "run"
  /\ dobj.Q = {}
  /\ dpc' = "done"
  /\ UNCHANGED <<dmol, dobj, dtarget, dans>>

\* the loop of path(): u is put in front of S while m_prev[u] is not the
\* null atom, then the source is put in front
RECURSIVE PathLoop(_, _, _)
PathLoop(obj, u, S) ==
  IF obj.m_prev[u] # null_atom
  THEN PathLoop(obj, obj.m_prev[u], <<u>> \o S)
  ELSE <<obj.m_source>> \o S

\* distance(target) and path(target)
Ask(goal) ==
  /\ UNCHANGED dijOthers
  /\ dpc \in {"done", "asked"}
  /\ dpc' = "asked"
  /\ dtarget' = goal
  /\ dans' = [distance |-> dobj.m_dist[goal], path |-> PathLoop(dobj, goal, << >>)]
  /\ UNCHANGED <<dmol, dobj>>

DijStep ==
  \/ DijkstraRound
  \/ DijkstraEnd
  \/ \E goal \in DAtoms : Ask(goal)

\* the atoms at most k bonds from the source along atoms of the mask
RECURSIVE Within(_)
Within(k) ==
  IF k = 0 THEN {dobj.m_source}
  ELSE Within(k - 1) \cup
       {v \in dobj.atomMask : \E u \in Within(k - 1) : {u, v} \in dmol.bonds}

\* the minimum number of bonds between the source and target, infinity if
\* there is no path
MinBonds(goal) ==
  IF goal \notin Within(DijkstraAtoms) THEN infinity
  ELSE CHOOSE k \in 0 .. DijkstraAtoms :
         goal \in Within(k) /\ \A j \in 0 .. (k - 1) : goal \notin Within(j)

\* p leads from the source to target over bonds between atoms of the mask
IsPath(p, goal) ==
  /\ Len(p) >= 1
  /\ p[1] = dobj.m_source
  /\ p[Len(p)] = goal
  /\ \A k \in 1 .. (Len(p) - 1) : {p[k], p[k + 1]} \in dmol.bonds
  /\ \A k \in 1 .. Len(p) : p[k] \in dobj.atomMask

\* C21: for every target atom, path(target) starts with the source, ends
\* with the target and steps over bonds between allowed atoms; its number
\* of bonds is distance(target), the minimum number of bonds between source
\* and target, and distance(target) is infinity() when there is no path.
C21_ShortestPaths ==
  dpc = "asked" =>
    /\ IsPath(dans.path, dtarget)
    /\ Len(dans.path) - 1 = dans.distance
    /\ dans.distance = MinBonds(dtarget)

\* the same for the targets that can be reached; for the others only
\* distance(target) = infinity()
C21_ReachableTargets ==
  dpc = "asked" =>
    /\ dans.distance = MinBonds(dtarget)
    /\ MinBonds(dtarget) # infinity =>
         IsPath(dans.path, dtarget) /\ Len(dans.path) - 1 = dans.distance

----------------------------------------------------------------------------
(***************************************************************************)
(* Specifications                                                          *)
(***************************************************************************)

InitIdx == IdxInit /\ CombIdle /\ EvalIdle /\ FileIdle /\ OpenIdle /\ RowIdle /\ TreesIdle /\ RaceIdle /\ VecIdle /\ FpIdle /\ DijIdle

SpecIdx == InitIdx /\ [][IdxStep]_vars

InitComb == CombInit /\ IdxIdle /\ EvalIdle /\ FileIdle /\ OpenIdle /\ RowIdle /\ TreesIdle /\ RaceIdle /\ VecIdle /\ FpIdle /\ DijIdle

SpecComb == InitComb /\ [][CombStep]_vars


InitEval == EvalInit /\ IdxIdle /\ CombIdle /\ FileIdle /\ OpenIdle /\ RowIdle /\ TreesIdle /\ RaceIdle /\ VecIdle /\ FpIdle /\ DijIdle

SpecEval == InitEval /\ [][EvalStep]_vars

InitFile == FileInit /\ IdxIdle /\ CombIdle /\ EvalIdle /\ OpenIdle /\ RowIdle /\ TreesIdle /\ RaceIdle /\ VecIdle /\ FpIdle /\ DijIdle

SpecFile == InitFile /\ [][FileStep]_vars

InitOpen == OpenInit /\ IdxIdle /\ CombIdle /\ EvalIdle /\ FileIdle /\ RowIdle /\ TreesIdle /\ RaceIdle /\ VecIdle /\ FpIdle /\ DijIdle

SpecOpen == InitOpen /\ [][OpenStep]_vars

InitRow == RowInit /\ IdxIdle /\ CombIdle /\ EvalIdle /\ FileIdle /\ OpenIdle /\ TreesIdle /\ RaceIdle /\ VecIdle /\ FpIdle /\ DijIdle

SpecRow == InitRow /\ [][RowStep]_vars

InitTrees == TreesInit /\ IdxIdle /\ CombIdle /\ EvalIdle /\ FileIdle /\ OpenIdle /\ RowIdle /\ RaceIdle /\ VecIdle /\ FpIdle /\ DijIdle

SpecTrees == InitTrees /\ [][TreesStep]_vars

InitRace == RaceInit /\ IdxIdle /\ CombIdle /\ EvalIdle /\ FileIdle /\ OpenIdle /\ RowIdle /\ TreesIdle /\ VecIdle /\ FpIdle /\ DijIdle

SpecRace == InitRace /\ [][RaceStep]_vars

InitVec == VecInit /\ IdxIdle /\ CombIdle /\ EvalIdle /\ FileIdle /\ OpenIdle /\ RowIdle /\ TreesIdle /\ RaceIdle /\ FpIdle /\ DijIdle

SpecVec == InitVec /\ [][VecStep]_vars

InitFp == FpInit /\ IdxIdle /\ CombIdle /\ EvalIdle /\ FileIdle /\ OpenIdle /\ RowIdle /\ TreesIdle /\ RaceIdle /\ VecIdle /\ DijIdle

SpecFp == InitFp /\ [][FpStep]_vars

InitDij == DijInit /\ IdxIdle /\ CombIdle /\ EvalIdle /\ FileIdle /\ OpenIdle /\ RowIdle /\ TreesIdle /\ RaceIdle /\ VecIdle /\ FpIdle

SpecDij == InitDij /\ [][DijStep]_vars

====
